---- MODULE Spec2Model ----
(***************************************************************************)
(* Model of the datacommons-mcp core: the LRU cache, date filtering, the   *)
(* multi-backend observation fusion, the topic existence filter and the    *)
(* indicator search fan-out / merge.                                       *)
(*                                                                         *)
(* Each component has its own specification (SpecCache, SpecDate, ...)     *)
(* over the shared variables; a component's specification leaves the other *)
(* components' variables at their initial value.                           *)
(*                                                                         *)
(* Encoding of Python values:                                              *)
(*   None / "" for an optional string or object : <<>>, a value x : <<x>>  *)
(*   a date string "YYYY", "YYYY-MM", "YYYY-MM-DD" : <<y>>, <<y,m>>,       *)
(*     <<y,m,d>> (string comparison = lexicographic comparison of these)   *)
(*   a datetime : <<y, m, d>>                                              *)
(***************************************************************************)
EXTENDS Integers, Sequences, FiniteSets, TLC

VARIABLES
  \* ---- LruCache (proof_of_concept/cache.py) ----
  cache,        \* OrderedDict: sequence of [key, value], oldest first
  capacity,     \* LruCache.capacity
  ret,          \* result of the last get: <<>> for None, <<v>> for a hit
  history,      \* ghost: the operations applied so far, [op, key, hit]
  \* ---- filter_by_date (utils.py) ----
  observations, \* the observation list passed in: sequence of [date, value]
  date_filter,  \* <<>> for None, <<[start_date, end_date]>> for a DateRange
  filtered_list,\* the list returned
  datePc,       \* "call" before the call, "done" after it
  \* ---- MultiDCClient.fetch_obs (clients.py) ----
  custom_dc,       \* TRUE iff a custom DCClient is configured
  request,         \* the ObservationToolRequest: [date_filter]
  client_results,  \* per backend: the state of its fetch_obs task
  final_response,  \* the ObservationToolResponse under construction
  obsPc,           \* position of fetch_obs
  \* ---- DCClient: topic store and per-place variable cache (clients.py) ----
  topic_store,     \* topics_by_dcid: topic dcid -> [member_topics, variables]
  variable_cache,  \* DCClient.variable_cache, an LruCache: place -> variables
  \* ---- DCClient._get_topic_places_with_data (clients.py) ----
  topic_dcid,      \* the topic asked about
  place_dcids,     \* the filter places
  topic_result,    \* the outcome: [error, places]
  topic_exists,    \* outcome of _check_topic_exists_recursive: [error, value]
  topicPc,         \* "call" before the call, "done" after it
  \* ---- search_indicators (services.py) ----
  args,            \* [mode, place1_name, place2_name, per_search_limit]
  backend_place_variables, \* what the backend holds: place -> variable ids
  searchPc,        \* position of search_indicators
  search_mode,     \* the SearchMode in force
  place_dcids_map, \* result of search_places: name -> dcid
  search_tasks,    \* the SearchTasks built: sequence of [query, place_dcids]
  task_results,    \* the calls of the tasks (lookup mode: of each fetch) and their results
  all_variables,   \* lookup mode: the variables found so far
  lookupPos,       \* lookup mode: index of the next (task, place) fetch
  search_result,   \* <<>> or <<the merged SearchResult>>
  response,        \* <<>> or <<the SearchResponse returned>>
  calls,           \* ghost: the client calls made so far
  error,           \* "" or the call that made search_indicators raise
  \* ---- get_observations (services.py) ----
  obs_args,        \* the arguments of the call
  requestPc,       \* position of get_observations
  observation_request, \* <<>> or <<the ObservationToolRequest built>>
  request_calls,   \* ghost: the client calls made so far
  request_error,   \* "" or the exception raised
  \* ---- middleware.py ----
  middleware,      \* the middleware dispatching
  headers,         \* the headers of the request: name -> value
  middlewarePc,    \* position of dispatch
  events,          \* ghost: what dispatch has done so far
  seen_headers,    \* <<>> or <<the headers the downstream handler received>>
  dispatch_result  \* <<>> or <<what dispatch returned or raised>>

cacheVars == <<cache, capacity, ret, history>>

dateVars == <<observations, date_filter, filtered_list, datePc>>

obsVars == <<custom_dc, request, client_results, final_response, obsPc>>

clientVars == <<topic_store, variable_cache>>

topicVars == <<topic_dcid, place_dcids, topic_result, topic_exists, topicPc>>

searchVars == <<args, backend_place_variables, searchPc, search_mode, place_dcids_map,
                search_tasks, task_results, all_variables, lookupPos, search_result,
                response, calls, error>>

requestVars == <<obs_args, requestPc, observation_request, request_calls, request_error>>

middlewareVars == <<middleware, headers, middlewarePc, events, seen_headers,
                    dispatch_result>>

notCacheVars == <<dateVars, obsVars, clientVars, topicVars, searchVars, requestVars,
                  middlewareVars>>

notDateVars == <<cacheVars, obsVars, clientVars, topicVars, searchVars, requestVars,
                 middlewareVars>>

notObsVars == <<cacheVars, dateVars, clientVars, topicVars, searchVars, requestVars,
                middlewareVars>>

notTopicVars == <<cacheVars, dateVars, obsVars, searchVars, requestVars, middlewareVars>>

notSearchVars == <<cacheVars, dateVars, obsVars, topicVars, requestVars, middlewareVars>>

notRequestVars == <<cacheVars, dateVars, obsVars, clientVars, topicVars, searchVars,
                    middlewareVars>>

notMiddlewareVars == <<cacheVars, dateVars, obsVars, clientVars, topicVars, searchVars,
                       requestVars>>

vars == <<cache, capacity, ret, history,
          observations, date_filter, filtered_list, datePc,
          custom_dc, request, client_results, final_response, obsPc,
          topic_store, variable_cache,
          topic_dcid, place_dcids, topic_result, topic_exists, topicPc,
          args, backend_place_variables, searchPc, search_mode, place_dcids_map,
          search_tasks, task_results, all_variables, lookupPos, search_result,
          response, calls, error,
          obs_args, requestPc, observation_request, request_calls, request_error,
          middleware, headers, middlewarePc, events, seen_headers, dispatch_result>>

(***************************************************************************)
(* Generic helpers                                                         *)
(***************************************************************************)
Range(s) == {s[i] : i \in 1..Len(s)}

Min(a, b) == IF a <= b THEN a ELSE b

SeqFilter(s, Test(_)) == SelectSeq(s, Test)

\* All sequences over S of length at most n
SeqsUpTo(S, n) == UNION {[1..k -> S] : k \in 0..n}

\* Sequences without repetition
IsInjective(s) == \A i, j \in 1..Len(s) : i # j => s[i] # s[j]

(***************************************************************************)
(* LruCache                                                                *)
(***************************************************************************)
\* ---- bounds of the cache specification ----
MaxOps == 5
MaxCapacity == 2
CacheKeys == {"k1", "k2", "k3"}
CacheValues == {1, 2}

Keys(c) == {c[i].key : i \in 1..Len(c)}

KeyIndex(c, k) == CHOOSE i \in 1..Len(c) : c[i].key = k

ValueOf(c, k) == c[KeyIndex(c, k)].value

\* OrderedDict.move_to_end(key): key becomes the last (most recent) entry
MoveToEnd_NoMove(c, k) == c

MoveToEnd(c, k) ==
  LET i == KeyIndex(c, k)
  IN  SubSeq(c, 1, i - 1) \o SubSeq(c, i + 1, Len(c)) \o <<c[i]>>

\* OrderedDict.__setitem__: an existing key keeps its position, a new key
\* is appended
SetItem(c, k, v) ==
  IF k \in Keys(c)
  THEN [c EXCEPT ![KeyIndex(c, k)].value = v]
  ELSE Append(c, [key |-> k, value |-> v])

\* OrderedDict.popitem(last=False)
PopOldest(c) == Tail(c)

\* The cache after LruCache.get(key)
LruAfterGet(c, k) == IF k \notin Keys(c) THEN c ELSE MoveToEnd(c, k)

\* The value returned by LruCache.get(key)
LruGetResult(c, k) == IF k \notin Keys(c) THEN <<>> ELSE <<ValueOf(c, k)>>

\* The cache after LruCache.put(key, value)
LruAfterPut(c, cap, k, v) ==
  LET c1 == MoveToEnd(SetItem(c, k, v), k)
  IN  IF Len(c1) > cap THEN PopOldest(c1) ELSE c1

IdleCache ==
  /\ cache = <<>>
  /\ capacity = 1
  /\ ret = <<>>
  /\ history = <<>>

IdleDate ==
  /\ observations = <<>>
  /\ date_filter = <<>>
  /\ filtered_list = <<>>
  /\ datePc = "idle"

\* ObservationToolResponse(): no sources, no places
EmptyMap == [x \in {} |-> x]

EmptyResponse == [source_info |-> EmptyMap, place_data |-> EmptyMap]

IdleObs ==
  /\ custom_dc = FALSE
  /\ request = [date_filter |-> <<>>]
  /\ client_results = EmptyMap
  /\ final_response = EmptyResponse
  /\ obsPc = "idle"

NoResult == [error |-> FALSE, places |-> <<>>]

NoExists == [error |-> FALSE, value |-> FALSE]

IdleClient ==
  /\ topic_store = EmptyMap
  /\ variable_cache = <<>>

IdleTopic ==
  /\ topic_dcid = ""
  /\ place_dcids = <<>>
  /\ topic_result = NoResult
  /\ topic_exists = NoExists
  /\ topicPc = "idle"

IdleSearch ==
  /\ args = [mode |-> "", place1_name |-> "", place2_name |-> "",
             per_search_limit |-> 10]
  /\ backend_place_variables = EmptyMap
  /\ searchPc = "idle"
  /\ search_mode = ""
  /\ place_dcids_map = EmptyMap
  /\ search_tasks = <<>>
  /\ task_results = <<>>
  /\ all_variables = <<>>
  /\ lookupPos = 1
  /\ search_result = <<>>
  /\ response = <<>>
  /\ calls = <<>>
  /\ error = ""

NoArgs ==
  [variable_dcid |-> "", place_dcid |-> "", place_name |-> "", period |-> "",
   start_date |-> <<>>, end_date |-> <<>>]

IdleRequest ==
  /\ obs_args = NoArgs
  /\ requestPc = "idle"
  /\ observation_request = <<>>
  /\ request_calls = <<>>
  /\ request_error = ""

IdleMiddleware ==
  /\ middleware = ""
  /\ headers = EmptyMap
  /\ middlewarePc = "idle"
  /\ events = <<>>
  /\ seen_headers = <<>>
  /\ dispatch_result = <<>>

InitCache ==
  /\ cache = <<>>
  /\ capacity \in 1..MaxCapacity
  /\ ret = <<>>
  /\ history = <<>>
  /\ IdleDate
  /\ IdleObs
  /\ IdleClient
  /\ IdleTopic
  /\ IdleSearch
  /\ IdleRequest
  /\ IdleMiddleware

get(k) ==
  /\ Len(history) < MaxOps
  /\ ret' = LruGetResult(cache, k)
  /\ cache' = LruAfterGet(cache, k)
  /\ history' = Append(history, [op |-> "get", key |-> k, hit |-> k \in Keys(cache)])
  /\ UNCHANGED capacity
  /\ UNCHANGED notCacheVars

put(k, v) ==
  /\ Len(history) < MaxOps
  /\ cache' = LruAfterPut(cache, capacity, k, v)
  /\ history' = Append(history, [op |-> "put", key |-> k, hit |-> FALSE])
  /\ UNCHANGED <<capacity, ret>>
  /\ UNCHANGED notCacheVars

NextCache ==
  \/ \E k \in CacheKeys : get(k)
  \/ \E k \in CacheKeys, v \in CacheValues : put(k, v)

SpecCache == InitCache /\ [][NextCache]_vars

\* ---- ghost computations over the history ----
IsTouch(h) == h.op = "put" \/ h.hit

TouchedKeys == {history[i].key : i \in {j \in 1..Len(history) : IsTouch(history[j])}}

PutKeys == {history[i].key : i \in {j \in 1..Len(history) : history[j].op = "put"}}

LastTouch(k) ==
  CHOOSE i \in 1..Len(history) :
    /\ IsTouch(history[i]) /\ history[i].key = k
    /\ \A j \in (i + 1)..Len(history) : ~(IsTouch(history[j]) /\ history[j].key = k)

\* the n most recently touched keys
MostRecentlyTouched(n) ==
  {k \in TouchedKeys :
     Cardinality({k2 \in TouchedKeys : LastTouch(k2) > LastTouch(k)}) < n}

\* C1: the cache holds exactly the min(capacity, number of distinct keys ever
\* put) most recently touched keys (a put and a get that hits are touches),
\* in recency order, and its size never exceeds the capacity.
C1_LruProperty ==
  /\ Len(cache) <= capacity
  /\ Len(cache) = Min(capacity, Cardinality(PutKeys))
  /\ Keys(cache) = MostRecentlyTouched(Min(capacity, Cardinality(PutKeys)))
  /\ \A i, j \in 1..Len(cache) :
       i < j => LastTouch(cache[i].key) < LastTouch(cache[j].key)

\* C1 witness: a put into a full cache has evicted a key that an earlier get
\* had not refreshed, while the key refreshed by a get that hit is retained.
C1_Witness ==
  /\ Cardinality(PutKeys) > capacity
  /\ Len(cache) = capacity
  /\ \E i \in 1..Len(history) : history[i].op = "get" /\ history[i].hit
                                /\ history[i].key \in Keys(cache)
  /\ history[Len(history)].op = "put"
  /\ \E k \in PutKeys : k \notin Keys(cache)

(***************************************************************************)
(* Dates: ObservationDate.parse_date, DateRange, filter_by_date            *)
(***************************************************************************)
\* ---- bounds of the date specification ----
MaxObs == 2

\* observation dates offered to filter_by_date
ObsDateStrings ==
  { <<2022>>, <<2023>>, <<2023, 1>>, <<2023, 2>>, <<2022, 12, 31>>,
    <<2023, 1, 1>>, <<2023, 1, 31>>, <<2023, 2, 1>>, <<2024, 2, 29>>,
    <<2024, 3, 1>> }

\* start_date / end_date strings offered to the DateRange constructor
RangeDateStrings ==
  { <<2022>>, <<2023>>, <<2023, 1>>, <<2024, 2>>, <<2023, 1, 1>>,
    <<2023, 1, 31>> }

IsLeapYear(y) == (y % 4 = 0 /\ y % 100 # 0) \/ y % 400 = 0

DaysInMonth(y, m) ==
  IF m = 2 THEN (IF IsLeapYear(y) THEN 29 ELSE 28)
  ELSE IF m \in {4, 6, 9, 11} THEN 30 ELSE 31

\* ObservationDate.parse_date: a missing month or day defaults to 1
parse_date(s) ==
  <<s[1], IF Len(s) >= 2 THEN s[2] ELSE 1, IF Len(s) >= 3 THEN s[3] ELSE 1>>

\* DateRange.get_start_date: the first day of the period
get_start_date(s) == parse_date(s)

\* DateRange.get_end_date: the last day of the period
get_end_date(s) ==
  IF Len(s) = 1 THEN <<s[1], 12, 31>>
  ELSE IF Len(s) = 2 THEN <<s[1], s[2], DaysInMonth(s[1], s[2])>>
  ELSE <<s[1], s[2], s[3]>>

\* DateRange.parse_interval
parse_interval(s) == <<get_start_date(s), get_end_date(s)>>

\* datetime comparison
DtLess(a, b) ==
  \/ a[1] < b[1]
  \/ a[1] = b[1] /\ a[2] < b[2]
  \/ a[1] = b[1] /\ a[2] = b[2] /\ a[3] < b[3]

DtLeq(a, b) == a = b \/ DtLess(a, b)

\* DateRange(start_date=s, end_date=e); the validator rejects start > end
DateRange(s, e) == [start_date |-> get_start_date(s), end_date |-> get_end_date(e)]

ValidDateRanges ==
  { DateRange(s, e) : <<s, e>> \in
      { p \in RangeDateStrings \X RangeDateStrings :
          DtLeq(get_start_date(p[1]), get_end_date(p[2])) } }

\* filter_by_date: the loop body's two early 'continue's
ObsDropped_Strict(obs, range_start, range_end) ==
  \/ DtLeq(parse_date(obs.date), range_start)
  \/ DtLeq(range_end, parse_date(obs.date))

ObsDropped(obs, range_start, range_end) ==
  \/ DtLess(parse_date(obs.date), range_start)
  \/ DtLess(range_end, parse_date(obs.date))

RECURSIVE FilterLoop(_, _, _, _)
FilterLoop(obsList, i, range_start, range_end) ==
  IF i > Len(obsList) THEN <<>>
  ELSE IF ObsDropped(obsList[i], range_start, range_end)
       THEN FilterLoop(obsList, i + 1, range_start, range_end)
       ELSE <<obsList[i]>> \o FilterLoop(obsList, i + 1, range_start, range_end)

filter_by_date(obsList, dateFilter) ==
  IF dateFilter = <<>> THEN obsList
  ELSE FilterLoop(obsList, 1, dateFilter[1].start_date, dateFilter[1].end_date)

\* an observation list: the value of the i-th observation is i, so that
\* observations with the same date stay distinguishable
ObsListOf(dates) == [i \in 1..Len(dates) |-> [date |-> dates[i], value |-> i]]

InitDate ==
  /\ IdleCache
  /\ IdleObs
  /\ IdleClient
  /\ IdleTopic
  /\ IdleSearch
  /\ IdleRequest
  /\ IdleMiddleware
  /\ observations \in {ObsListOf(d) : d \in SeqsUpTo(ObsDateStrings, MaxObs)}
  /\ date_filter \in {<<>>} \cup {<<r>> : r \in ValidDateRanges}
  /\ filtered_list = <<>>
  /\ datePc = "call"

FilterByDate ==
  /\ datePc = "call"
  /\ filtered_list' = filter_by_date(observations, date_filter)
  /\ datePc' = "done"
  /\ UNCHANGED <<observations, date_filter>>
  /\ UNCHANGED notDateVars

NextDate == FilterByDate

SpecDate == InitDate /\ [][NextDate]_vars

\* the day after a datetime
NextDay(d) ==
  IF d[3] < DaysInMonth(d[1], d[2]) THEN <<d[1], d[2], d[3] + 1>>
  ELSE IF d[2] < 12 THEN <<d[1], d[2] + 1, 1>>
  ELSE <<d[1] + 1, 1, 1>>

Kept(i) == \E j \in 1..Len(filtered_list) : filtered_list[j] = observations[i]

MaxFacets == 2

BASE_DC_ID == "base"
CUSTOM_DC_ID == "custom"

\* the (variable, place) pair of the request
VariableDcid == "var1"
PlaceDcid == "place1"

FacetIds == {"f1", "f2", "f3"}

\* facet contents offered by the backends (earliestDate, latestDate and
\* obsCount may be missing: <<>> and -1)
NoCount == 0 - 1

FacetProfiles ==
  { [earliestDate |-> <<2022>>, latestDate |-> <<2023>>, obsCount |-> 2,
     observations |-> ObsListOf(<< <<2022>>, <<2023>> >>)],
    [earliestDate |-> <<2020>>, latestDate |-> <<2021>>, obsCount |-> 3,
     observations |-> ObsListOf(<< <<2020>>, <<2020>>, <<2021>> >>)],
    [earliestDate |-> <<2023>>, latestDate |-> <<2023>>, obsCount |-> 3,
     observations |-> ObsListOf(<< <<2023>> >>)],
    [earliestDate |-> <<>>, latestDate |-> <<>>, obsCount |-> NoCount,
     observations |-> ObsListOf(<< <<2023, 6>> >>)] }

Facets ==
  { [facetId |-> f, earliestDate |-> p.earliestDate, latestDate |-> p.latestDate,
     obsCount |-> p.obsCount, observations |-> p.observations] :
      f \in FacetIds, p \in FacetProfiles }

\* orderedFacets of the pair: no facet id twice
OrderedFacetLists ==
  { l \in SeqsUpTo(Facets, MaxFacets) :
      \A i, j \in 1..Len(l) : i # j => l[i].facetId # l[j].facetId }

\* An ObservationApiResponse: hasEntity says whether the pair occurs in
\* byVariable/byEntity at all; facets is the key set of the facets dict.
ApiResponses ==
  { [hasEntity |-> TRUE, orderedFacets |-> l,
     facets |-> {l[i].facetId : i \in 1..Len(l)}] : l \in OrderedFacetLists }
  \cup { [hasEntity |-> FALSE, orderedFacets |-> <<>>, facets |-> {}] }

RequestDateFilters == {<<>>, <<DateRange(<<2023>>, <<2023>>)>>}

\* lexicographic comparison of strings (of date strings, as sequences)
RECURSIVE StrLess(_, _)
StrLess(a, b) ==
  IF b = <<>> THEN FALSE
  ELSE IF a = <<>> THEN TRUE
  ELSE IF Head(a) # Head(b) THEN Head(a) < Head(b)
  ELSE StrLess(Tail(a), Tail(b))

\* min / max of a non-empty list of normalized dates
MinDate(ds) == CHOOSE d \in Range(ds) : \A e \in Range(ds) : d = e \/ StrLess(d, e)

MaxDate(ds) == CHOOSE d \in Range(ds) : \A e \in Range(ds) : d = e \/ StrLess(e, d)

\* 'x or default' on an optional string
OrEmpty(x) == x

\* lines 662-696: the SourceMetadata of a facet
SeriesMetadata(facet, api_client_id) ==
  LET obs_count == IF facet.obsCount # NoCount THEN facet.obsCount
                   ELSE Len(facet.observations)
      derive == (facet.earliestDate = <<>> \/ facet.latestDate = <<>>)
                /\ facet.observations # <<>>
      intervals == [i \in 1..Len(facet.observations) |->
                      parse_interval(facet.observations[i].date)]
      starts == [i \in 1..Len(intervals) |-> intervals[i][1]]
      ends == [i \in 1..Len(intervals) |-> intervals[i][2]]
  IN  [source_id |-> facet.facetId,
       dc_client_id |-> api_client_id,
       earliest_date |-> IF derive /\ facet.earliestDate = <<>>
                         THEN MinDate(starts) ELSE facet.earliestDate,
       latest_date |-> IF derive /\ facet.latestDate = <<>>
                       THEN MaxDate(ends) ELSE facet.latestDate,
       total_observations |-> obs_count]

\* selected_source_ids: [given |-> FALSE] for None, else the list as a set
NoSelection == [given |-> FALSE, ids |-> {}]

\* line 657: the facet is skipped iff the selection is truthy and lacks it
FacetSkipped_EmptyFilters(selected_source_ids, facetId) ==
  selected_source_ids.given /\ facetId \notin selected_source_ids.ids

FacetSkipped(selected_source_ids, facetId) ==
  /\ selected_source_ids.given
  /\ selected_source_ids.ids # {}
  /\ facetId \notin selected_source_ids.ids

\* lines 655-707: all_sources_from_api, in orderedFacets order
RECURSIVE CollectSources(_, _, _, _)
CollectSources(facets, api_client_id, dateFilter, selected_source_ids) ==
  IF facets = <<>> THEN <<>>
  ELSE LET facet == Head(facets)
           rest == CollectSources(Tail(facets), api_client_id, dateFilter,
                                  selected_source_ids)
       IN  IF FacetSkipped(selected_source_ids, facet.facetId) THEN rest
           ELSE << [metadata |-> SeriesMetadata(facet, api_client_id),
                    obs |-> filter_by_date(facet.observations, dateFilter)] >>
                \o rest

\* lines 698-703: a Source is registered under its facet id if it is new
RegisterSource_Overwrite(source_info, id, api_client_id) ==
  (id :> [source_id |-> id, importName |-> <<api_client_id, id>>]) @@ source_info

RegisterSource(source_info, id, api_client_id) ==
  IF id \in DOMAIN source_info THEN source_info
  ELSE (id :> [source_id |-> id, importName |-> <<api_client_id, id>>]) @@ source_info

RECURSIVE RegisterSources(_, _, _)
RegisterSources(source_info, sources, api_client_id) ==
  IF sources = <<>> THEN source_info
  ELSE RegisterSources(RegisterSource(source_info, Head(sources).metadata.source_id,
                                      api_client_id),
                       Tail(sources), api_client_id)

\* lines 719-725: the sort key, compared as a tuple
SortKeyLess(m1, m2) ==
  \/ StrLess(OrEmpty(m1.latest_date), OrEmpty(m2.latest_date))
  \/ /\ OrEmpty(m1.latest_date) = OrEmpty(m2.latest_date)
     /\ m1.total_observations < m2.total_observations

\* lines 715-727: sources_with_obs sorted (stable, reverse=True); the first
\* element of the sorted list is the earliest source with the greatest key
BestSource_Ascending(sources_with_obs) ==
  LET i == CHOOSE i \in 1..Len(sources_with_obs) :
             /\ \A j \in 1..Len(sources_with_obs) :
                  ~SortKeyLess(sources_with_obs[j].metadata, sources_with_obs[i].metadata)
             /\ \A j \in 1..(i - 1) :
                  SortKeyLess(sources_with_obs[i].metadata, sources_with_obs[j].metadata)
  IN  sources_with_obs[i]

BestSource(sources_with_obs) ==
  LET i == CHOOSE i \in 1..Len(sources_with_obs) :
             /\ \A j \in 1..Len(sources_with_obs) :
                  ~SortKeyLess(sources_with_obs[i].metadata, sources_with_obs[j].metadata)
             /\ \A j \in 1..(i - 1) :
                  SortKeyLess(sources_with_obs[j].metadata, sources_with_obs[i].metadata)
  IN  sources_with_obs[i]

HasObs_Any(s) == TRUE

HasObs(s) == s.obs # <<>>

IsNotSource(m, id) == m.source_id # id

MetadataOf(sources) == [i \in 1..Len(sources) |-> sources[i].metadata]

\* lines 733-737: alternative_sources.extend(all_metadata_for_place_var)
ExtendAlternatives_SkipKnown(alternative_sources, all_metadata) ==
  LET known == {alternative_sources[i].source_id : i \in 1..Len(alternative_sources)}
  IN  alternative_sources \o SelectSeq(all_metadata, LAMBDA m : m.source_id \notin known)

ExtendAlternatives(alternative_sources, all_metadata) ==
  alternative_sources \o all_metadata

\* _integrate_observation_response for the pair (VariableDcid, PlaceDcid)
integrate_observation_response(final, api_response, api_client_id, dateFilter, selected_source_ids) ==
  IF ~api_response.hasEntity THEN final
  ELSE
    LET place_data0 ==
          IF PlaceDcid \in DOMAIN final.place_data THEN final.place_data
          ELSE (PlaceDcid :> [place_dcid |-> PlaceDcid, place_name |-> <<>>,
                              variable_series |-> EmptyMap]) @@ final.place_data
        all_sources_from_api ==
          CollectSources(api_response.orderedFacets, api_client_id, dateFilter,
                         selected_source_ids)
        sources_with_obs == SelectSeq(all_sources_from_api, HasObs)
        all_metadata == MetadataOf(all_sources_from_api)
        series == place_data0[PlaceDcid].variable_series
        series1 ==
          IF VariableDcid \in DOMAIN series
          THEN [series EXCEPT ![VariableDcid].alternative_sources =
                                 ExtendAlternatives(@, all_metadata)]
          ELSE IF sources_with_obs # <<>>
          THEN LET primary == BestSource(sources_with_obs)
                   NotPrimary(m) == IsNotSource(m, primary.metadata.source_id)
               IN  (VariableDcid :>
                      [variable_dcid |-> VariableDcid,
                       source_metadata |-> primary.metadata,
                       observations |-> primary.obs,
                       alternative_sources |-> SelectSeq(all_metadata, NotPrimary)])
                   @@ series
          ELSE series
    IN  [source_info |-> RegisterSources(final.source_info, all_sources_from_api,
                                         api_client_id),
         place_data |-> [place_data0 EXCEPT ![PlaceDcid].variable_series = series1]]

\* the backends whose fetch_obs is gathered (dc_map)
DcMap == IF custom_dc THEN {BASE_DC_ID, CUSTOM_DC_ID} ELSE {BASE_DC_ID}

Pending == [state |-> "pending"]
Raised == [state |-> "raised"]
Fetched(r) == [state |-> "ok", response |-> r]

InitObs ==
  /\ IdleCache
  /\ IdleDate
  /\ IdleClient
  /\ IdleTopic
  /\ IdleSearch
  /\ IdleRequest
  /\ IdleMiddleware
  /\ custom_dc \in BOOLEAN
  /\ request \in {[date_filter |-> f] : f \in RequestDateFilters}
  /\ client_results = [dc \in DcMap |-> Pending]
  /\ final_response = EmptyResponse
  /\ obsPc = "gather"

\* one backend's fetch_obs task completes, with a response or an exception
FetchObsReturns(dc) ==
  /\ obsPc = "gather"
  /\ dc \in DcMap
  /\ client_results[dc] = Pending
  /\ \E r \in ApiResponses :
       client_results' = [client_results EXCEPT ![dc] = Fetched(r)]
  /\ UNCHANGED <<custom_dc, request, final_response, obsPc>>
  /\ UNCHANGED notObsVars

FetchObsRaises(dc) ==
  /\ obsPc = "gather"
  /\ dc \in DcMap
  /\ client_results[dc] = Pending
  /\ client_results' = [client_results EXCEPT ![dc] = Raised]
  /\ UNCHANGED <<custom_dc, request, final_response, obsPc>>
  /\ UNCHANGED notObsVars

\* asyncio.gather without return_exceptions: the first exception propagates
GatherRaises_AllFail(results) == \A dc \in DOMAIN results : results[dc] = Raised

GatherRaises(results) == \E dc \in DOMAIN results : results[dc] = Raised

GatherFails ==
  /\ obsPc = "gather"
  /\ GatherRaises(client_results)
  /\ obsPc' = "raised"
  /\ UNCHANGED <<custom_dc, request, client_results, final_response>>
  /\ UNCHANGED notObsVars

GatherCompletes_BaseOnly ==
  /\ obsPc = "gather"
  /\ ~GatherRaises(client_results)
  /\ client_results[BASE_DC_ID] # Pending
  /\ obsPc' = "integrate_custom"
  /\ UNCHANGED <<custom_dc, request, client_results, final_response>>
  /\ UNCHANGED notObsVars

GatherCompletes ==
  /\ obsPc = "gather"
  /\ ~GatherRaises(client_results)
  /\ \A dc \in DOMAIN client_results : client_results[dc] # Pending
  /\ obsPc' = "integrate_custom"
  /\ UNCHANGED <<custom_dc, request, client_results, final_response>>
  /\ UNCHANGED notObsVars

\* lines 599-611: the custom pass, restricted to the facets unique to custom
SelectedSourceIds(custom_response, base_response) ==
  [given |-> TRUE, ids |-> custom_response.facets \ base_response.facets]

IntegrateCustom ==
  /\ obsPc = "integrate_custom"
  /\ final_response' =
       IF custom_dc /\ CUSTOM_DC_ID \in DOMAIN client_results
       THEN integrate_observation_response(
              final_response, client_results[CUSTOM_DC_ID].response, CUSTOM_DC_ID,
              request.date_filter,
              SelectedSourceIds(client_results[CUSTOM_DC_ID].response,
                                client_results[BASE_DC_ID].response))
       ELSE final_response
  /\ obsPc' = "integrate_base"
  /\ UNCHANGED <<custom_dc, request, client_results>>
  /\ UNCHANGED notObsVars

\* lines 613-619: the base pass, unfiltered
IntegrateBase ==
  /\ obsPc = "integrate_base"
  /\ final_response' =
       integrate_observation_response(
         final_response, client_results[BASE_DC_ID].response, BASE_DC_ID,
         request.date_filter, NoSelection)
  /\ obsPc' = "place_names"
  /\ UNCHANGED <<custom_dc, request, client_results>>
  /\ UNCHANGED notObsVars

\* lines 111-116, 621-622: add_place_metadata_to_obs, then return
AddPlaceMetadata ==
  /\ obsPc = "place_names"
  /\ \E named \in SUBSET (DOMAIN final_response.place_data) :
       final_response' =
         [final_response EXCEPT !.place_data =
            [p \in DOMAIN @ |->
               IF p \in named THEN [@[p] EXCEPT !.place_name = <<"name", p>>]
               ELSE @[p]]]
  /\ obsPc' = "returned"
  /\ UNCHANGED <<custom_dc, request, client_results>>
  /\ UNCHANGED notObsVars

AddPlaceMetadataRaises ==
  /\ obsPc = "place_names"
  /\ obsPc' = "raised"
  /\ UNCHANGED <<custom_dc, request, client_results, final_response>>
  /\ UNCHANGED notObsVars

NextObs ==
  \/ \E dc \in {BASE_DC_ID, CUSTOM_DC_ID} : FetchObsReturns(dc)
  \/ \E dc \in {BASE_DC_ID, CUSTOM_DC_ID} : FetchObsRaises(dc)
  \/ GatherFails
  \/ GatherCompletes
  \/ IntegrateCustom
  \/ IntegrateBase
  \/ AddPlaceMetadata
  \/ AddPlaceMetadataRaises

SpecObs == InitObs /\ [][NextObs]_vars

\* ---- properties of the fusion ----
SeriesExists ==
  /\ PlaceDcid \in DOMAIN final_response.place_data
  /\ VariableDcid \in DOMAIN final_response.place_data[PlaceDcid].variable_series

TheSeries == final_response.place_data[PlaceDcid].variable_series[VariableDcid]

AlternativeIds ==
  {TheSeries.alternative_sources[i].source_id :
     i \in 1..Len(TheSeries.alternative_sources)}

ResponseOf(dc) == client_results[dc].response

\* the facet ids the pass of backend dc integrates
IdsOfPass(dc) ==
  IF dc = CUSTOM_DC_ID
  THEN {f \in ResponseOf(dc).facets :
          ~FacetSkipped(SelectedSourceIds(ResponseOf(CUSTOM_DC_ID),
                                          ResponseOf(BASE_DC_ID)), f)}
  ELSE ResponseOf(dc).facets

\* the facets of the pass of backend dc with an observation in the date range
CandidatesOfPass(dc) ==
  {f \in Range(ResponseOf(dc).orderedFacets) :
     /\ f.facetId \in IdsOfPass(dc)
     /\ \E i \in 1..Len(f.observations) :
          \/ request.date_filter = <<>>
          \/ /\ DtLeq(request.date_filter[1].start_date, parse_date(f.observations[i].date))
             /\ DtLeq(parse_date(f.observations[i].date), request.date_filter[1].end_date)}

AfterGather == obsPc \in {"integrate_custom", "integrate_base", "place_names", "returned"}

\* C2: the primary of a series is a facet, with observations in the date
\* range, of the pass that created the series, and no such facet of that pass
\* has a greater (latest_date, total_observations) key: a later latest_date
\* wins, and with equal latest_date more observations win.
C2_PrimaryHasGreatestKey ==
  (AfterGather /\ SeriesExists) =>
    LET prim == TheSeries.source_metadata
        cands == CandidatesOfPass(prim.dc_client_id)
    IN  /\ \E f \in cands :
             /\ f.facetId = prim.source_id
             /\ prim = SeriesMetadata(f, prim.dc_client_id)
             /\ TheSeries.observations = filter_by_date(f.observations, request.date_filter)
        /\ \A f \in cands :
             LET m == SeriesMetadata(f, prim.dc_client_id)
             IN  /\ ~StrLess(prim.latest_date, m.latest_date)
                 /\ prim.latest_date = m.latest_date =>
                      prim.total_observations >= m.total_observations

\* C2 witness: the primary was chosen over a facet that comes earlier in the
\* response with an older latest_date, and over one with the same latest_date
\* and fewer observations.
C2_Witness ==
  /\ obsPc = "returned"
  /\ SeriesExists
  /\ LET prim == TheSeries.source_metadata
         fs == ResponseOf(prim.dc_client_id).orderedFacets
     IN  /\ Len(fs) = 2
         /\ fs[2].facetId = prim.source_id
         /\ fs[1] \in CandidatesOfPass(prim.dc_client_id)
         /\ \/ StrLess(fs[1].latestDate, prim.latest_date)
            \/ /\ fs[1].latestDate = prim.latest_date
               /\ fs[1].obsCount < prim.total_observations

\* what the custom pass has put into the response
IntegratedIds ==
  DOMAIN final_response.source_info
    \cup (IF SeriesExists
          THEN {TheSeries.source_metadata.source_id} \cup AlternativeIds
          ELSE {})

\* C3: after the custom pass, a facet id present in both responses has been
\* integrated neither as primary nor as alternative, and a facet id present
\* only in the custom response has been integrated.
C3_CustomPassIntegratesUniqueOnly ==
  (obsPc = "integrate_base" /\ custom_dc) =>
    /\ \A f \in ResponseOf(CUSTOM_DC_ID).facets \cap ResponseOf(BASE_DC_ID).facets :
         f \notin IntegratedIds
    /\ \A f \in ResponseOf(CUSTOM_DC_ID).facets \ ResponseOf(BASE_DC_ID).facets :
         f \in IntegratedIds

\* C4: in a returned response no alternative of a series has the source id
\* of the series' primary.
C4_AlternativesExcludePrimary ==
  (obsPc = "returned" /\ SeriesExists) =>
    TheSeries.source_metadata.source_id \notin AlternativeIds

\* C6: once the fetch_obs of a backend has raised, no integration takes
\* place and no response is returned.
C6_BackendFailureIsFatal ==
  (\E dc \in DOMAIN client_results : client_results[dc] = Raised) =>
    /\ obsPc \in {"gather", "raised"}
    /\ final_response = EmptyResponse

\* C6 witness: the call has raised although the other backend had answered.
C6_Witness ==
  /\ obsPc = "raised"
  /\ custom_dc
  /\ \E dc \in DOMAIN client_results : client_results[dc] = Raised
  /\ \E dc \in DOMAIN client_results :
       /\ client_results[dc].state = "ok"
       /\ client_results[dc].response.orderedFacets # <<>>

(***************************************************************************)
(* DCClient._get_topic_places_with_data / _check_topic_exists_recursive    *)
(***************************************************************************)
\* ---- bounds of the topic specification ----
\* the interpreter's recursion limit (sys.getrecursionlimit(), 1000 in
\* CPython), scaled down; it exceeds the depth of every acyclic topic graph
RecursionLimit == 5

TopicIds == {"t1", "t2", "t3"}
VariableIds == {"v1", "v2"}
PlaceIds == {"p1", "p2"}

\* member_topics lists: every subset of the topics, in a fixed order
MemberTopicLists ==
  { <<>>, <<"t1">>, <<"t2">>, <<"t3">>, <<"t1", "t2">>, <<"t2", "t3">>,
    <<"t1", "t3">>, <<"t3", "t2", "t1">> }

TopicVariableLists == { <<>>, <<"v1">>, <<"v2">> }

TopicNodes ==
  { [member_topics |-> m, variables |-> v] :
      m \in MemberTopicLists, v \in TopicVariableLists }

\* topic stores: t1 and t2 are always known, t3 may be unknown
TopicStores ==
  [ {"t1", "t2"} -> TopicNodes ] \cup [ TopicIds -> TopicNodes ]

\* cache contents offered: p1 absent or cached, p2 cached
TopicCaches ==
  { <<[key |-> "p2", value |-> {}]>>,
    <<[key |-> "p2", value |-> {"v2"}]>>,
    <<[key |-> "p1", value |-> {"v1"}], [key |-> "p2", value |-> {}]>>,
    <<[key |-> "p2", value |-> {"v2"}], [key |-> "p1", value |-> {"v1", "v2"}]>> }

TopicPlaceLists == { <<"p1">>, <<"p1", "p2">>, <<"p2", "p1">> }

\* 'var in place_variables for some var of the topic', place cached
PlaceHasAny(c, place_dcid, variables) ==
  /\ place_dcid \in Keys(c)
  /\ \E i \in 1..Len(variables) : variables[i] \in ValueOf(c, place_dcid)

\* lines 463-467: the places with a direct variable, in place_dcids order
DirectPlaces(c, node, places) ==
  LET Has(p) == PlaceHasAny(c, p, node.variables)
  IN  SelectSeq(places, Has)

\* lines 472-474: append the places not yet listed
AppendNew_Ignore(acc, places) == acc

RECURSIVE AppendNew(_, _)
AppendNew(acc, places) ==
  IF places = <<>> THEN acc
  ELSE AppendNew(IF Head(places) \in Range(acc) THEN acc
                 ELSE Append(acc, Head(places)), Tail(places))

RecursionError == [error |-> TRUE, places |-> <<>>]

\* _get_topic_places_with_data; depth is the number of active frames.  There
\* is no visited set: a frame beyond the recursion limit raises
\* RecursionError, which no caller catches.
RECURSIVE get_topic_places_with_data(_, _, _, _, _)
RECURSIVE MemberPlaces(_, _, _, _, _, _)
get_topic_places_with_data(store, c, topic, places, depth) ==
  IF depth > RecursionLimit THEN RecursionError
  ELSE IF places = <<>> THEN NoResult
  ELSE IF topic \notin DOMAIN store THEN NoResult
  ELSE MemberPlaces(store, c, store[topic].member_topics, places, depth,
                    DirectPlaces(c, store[topic], places))

MemberPlaces(store, c, members, places, depth, acc) ==
  IF members = <<>> THEN [error |-> FALSE, places |-> acc]
  ELSE LET r == get_topic_places_with_data(store, c, Head(members), places, depth + 1)
       IN  IF r.error THEN RecursionError
           ELSE MemberPlaces(store, c, Tail(members), places, depth,
                             AppendNew(acc, r.places))

ExistsError == [error |-> TRUE, value |-> FALSE]

\* _check_topic_exists_recursive
RECURSIVE check_topic_exists_recursive(_, _, _, _, _)
RECURSIVE AnyMemberExists(_, _, _, _, _)
check_topic_exists_recursive(store, c, topic, places, depth) ==
  IF depth > RecursionLimit THEN ExistsError
  ELSE IF places = <<>> THEN NoExists
  ELSE IF topic \notin DOMAIN store THEN NoExists
  ELSE IF \E i \in 1..Len(places) : PlaceHasAny(c, places[i], store[topic].variables)
       THEN [error |-> FALSE, value |-> TRUE]
  ELSE AnyMemberExists(store, c, store[topic].member_topics, places, depth)

AnyMemberExists(store, c, members, places, depth) ==
  IF members = <<>> THEN NoExists
  ELSE LET r == check_topic_exists_recursive(store, c, Head(members), places, depth + 1)
       IN  IF r.error \/ r.value THEN r
           ELSE AnyMemberExists(store, c, Tail(members), places, depth)

\* Every frame that gets past its guards reads the cache once per filter
\* place, in filter order (lines 463-464), and nothing else touches the
\* cache; so after the call the cached filter places are the most recent
\* entries, in filter order.
RECURSIVE TouchAll(_, _)
TouchAll(c, places) ==
  IF places = <<>> THEN c ELSE TouchAll(LruAfterGet(c, Head(places)), Tail(places))

CacheAfterTopicCall(store, c, topic, places) ==
  IF places = <<>> \/ topic \notin DOMAIN store THEN c ELSE TouchAll(c, places)

InitTopic ==
  /\ IdleCache
  /\ IdleDate
  /\ IdleObs
  /\ IdleSearch
  /\ IdleRequest
  /\ IdleMiddleware
  /\ topic_store \in TopicStores
  /\ variable_cache \in TopicCaches
  /\ topic_dcid \in {"t1", "t3"}
  /\ place_dcids \in TopicPlaceLists
  /\ topic_result = NoResult
  /\ topic_exists = NoExists
  /\ topicPc = "call"

GetTopicPlacesWithData ==
  /\ topicPc = "call"
  /\ topic_result' =
       get_topic_places_with_data(topic_store, variable_cache, topic_dcid, place_dcids, 1)
  /\ topic_exists' =
       check_topic_exists_recursive(topic_store, variable_cache, topic_dcid, place_dcids, 1)
  /\ variable_cache' =
       CacheAfterTopicCall(topic_store, variable_cache, topic_dcid, place_dcids)
  /\ topicPc' = "done"
  /\ UNCHANGED <<topic_store, topic_dcid, place_dcids>>
  /\ UNCHANGED notTopicVars

NextTopic == GetTopicPlacesWithData

SpecTopic == InitTopic /\ [][NextTopic]_vars

\* ---- properties of the topic filter ----
MembersOf(T) ==
  UNION { Range(topic_store[t].member_topics) : t \in T \cap DOMAIN topic_store }

RECURSIVE ReachableFrom(_)
ReachableFrom(T) ==
  IF MembersOf(T) \subseteq T THEN T ELSE ReachableFrom(T \cup MembersOf(T))

\* the variables of the topics reachable from t (t included)
HierarchyVariables(t) ==
  UNION { Range(topic_store[u].variables) :
            u \in ReachableFrom({t}) \cap DOMAIN topic_store }

PlacesExpected(t) ==
  { p \in Range(place_dcids) :
      /\ p \in Keys(variable_cache)
      /\ HierarchyVariables(t) \cap ValueOf(variable_cache, p) # {} }

\* C8: a computed places_with_data lists exactly the filter places at which
\* some variable of the topic, or of a topic reachable through
\* member_topics, is in the place's cached variable set.
C8_TopicPlacesAreUnion ==
  (topicPc = "done" /\ ~topic_result.error) =>
    Range(topic_result.places) = PlacesExpected(topic_dcid)

\* C8 witness: the topic has no direct variable at any place, a member topic
\* has data at a place, and that place is reported.
C8_Witness ==
  /\ topicPc = "done"
  /\ ~topic_result.error
  /\ topic_dcid \in DOMAIN topic_store
  /\ \A p \in Range(place_dcids) :
       ~PlaceHasAny(variable_cache, p, topic_store[topic_dcid].variables)
  /\ \E m \in Range(topic_store[topic_dcid].member_topics) \cap DOMAIN topic_store :
       \E p \in Range(place_dcids) :
         /\ PlaceHasAny(variable_cache, p, topic_store[m].variables)
         /\ p \in Range(topic_result.places)

\* C9: the computation ends without an error on every topic graph, cyclic
\* ones included.
C9_TerminatesOnCycles ==
  topicPc = "done" => ~topic_result.error

(***************************************************************************)
(* search_indicators                                                       *)
(***************************************************************************)
\* ---- bounds of the search specification ----
\* capacity of DCClient.variable_cache (128 in the code), scaled down; it
\* holds every filter place of one call, as 128 does
SearchCapacity == 2

\* clients.py:241: the vector search keeps the top 5 results of a query
TopResults == 5

\* the query text; never "statistics", the text _get_topic_svs special-cases
Query == <<"q">>

SearchModes == {"", "browse", "lookup", "bogus"}
SearchLimits == {0, 1, 2, 101}
Place1Names == {"", "France"}
Place2Names == {"", "France", "Germany"}

\* an identifier fetch_available_statistical_variables may list that matches
\* dc/[a-z0-9]{10,} and is no member of the topic store
InternalIds == {"dc/g000000001"}

\* the topic store of the search specification: t1 has the member topic t2
SearchTopicStore ==
  [t \in {"t1", "t2"} |->
     IF t = "t1" THEN [member_topics |-> <<"t2">>, variables |-> <<"v1">>]
     ELSE [member_topics |-> <<>>, variables |-> <<"v2">>]]

\* what the backend lists per place
BackendPlaceVariables ==
  { [p \in PlaceIds |-> IF p = "p1" THEN {"v1", "v2", "dc/g000000001"} ELSE {"v2"}],
    [p \in PlaceIds |-> IF p = "p1" THEN {"v1"} ELSE {}] }

\* what search_places may answer for a name
Candidates(name) ==
  IF name = "France" THEN {"", "p1"} ELSE {"", "p1", "p2"}

\* the order of str on the identifiers used
DcidRank(d) ==
  CASE d = "t1" -> 1 [] d = "t2" -> 2 [] d = "t3" -> 3
    [] d = "v1" -> 4 [] d = "v2" -> 5 [] OTHER -> 0

Hit(sv, score) == [SV |-> sv, CosineScore |-> score]

\* bodies of the vector-search answer, as (SV, CosineScore) pairs in the
\* order of the answer
VectorResponses ==
  { <<>>,
    <<Hit("v1", 9)>>,
    <<Hit("t1", 8), Hit("v1", 9)>>,
    <<Hit("v2", 7), Hit("v1", 7), Hit("t2", 6)>>,
    <<Hit("v1", 9), Hit("v2", 8), Hit("t1", 7), Hit("t2", 6), Hit("v1", 5), Hit("v2", 4)>> }

\* a vector-search request: it fails (connection error, HTTP error status,
\* unreadable body) or answers with a body
VectorOutcomes ==
  { [failed |-> FALSE, raw |-> r] : r \in VectorResponses }
    \cup { [failed |-> TRUE, raw |-> <<Hit("v1", 9), Hit("t1", 8)>>] }

\* names the backend knows
EntityName(d) == <<"name of", d>>

IsTopicDcid(d) == d \in TopicIds

\* s[:n]
Limit(s, n) == SubSeq(s, 1, Min(Len(s), n))

DcidsOf(entries) == [i \in 1..Len(entries) |-> entries[i].dcid]

\* list(dict.fromkeys(s))
RECURSIVE DedupeFrom(_, _)
DedupeFrom(acc, s) ==
  IF s = <<>> THEN acc
  ELSE DedupeFrom(IF Head(s) \in Range(acc) THEN acc ELSE Append(acc, Head(s)), Tail(s))

Dedupe(s) == DedupeFrom(<<>>, s)

\* key=lambda x: (-x[1], x[0])
HitLess(a, b) ==
  \/ a.CosineScore > b.CosineScore
  \/ a.CosineScore = b.CosineScore /\ DcidRank(a.SV) < DcidRank(b.SV)

\* sorted(): stable
RECURSIVE InsertHit(_, _)
InsertHit(sorted, h) ==
  IF sorted = <<>> THEN <<h>>
  ELSE IF HitLess(h, Head(sorted)) THEN <<h>> \o sorted
  ELSE <<Head(sorted)>> \o InsertHit(Tail(sorted), h)

RECURSIVE SortHits(_)
SortHits(raw) ==
  IF raw = <<>> THEN <<>> ELSE InsertHit(SortHits(SubSeq(raw, 1, Len(raw) - 1)), raw[Len(raw)])

\* search_svs for one query: every exception of the request is caught and
\* the query gets no results
search_svs_KeepBody(outcome) == Limit(SortHits(outcome.raw), TopResults)

search_svs(outcome) ==
  IF outcome.failed THEN <<>> ELSE Limit(SortHits(outcome.raw), TopResults)

\* _search_entities
search_entities(hits) ==
  LET dcids == [i \in 1..Len(hits) |-> hits[i].SV]
      IsVariable(d) == ~IsTopicDcid(d)
  IN  [topics |-> SelectSeq(dcids, IsTopicDcid),
       variables |-> SelectSeq(dcids, IsVariable)]

\* TopicStore.has_variable
has_variable(store, v) ==
  \E t \in DOMAIN store : v \in Range(store[t].variables)

\* TopicStore.get_topic_variables
get_topic_variables(store, t) ==
  IF t \in DOMAIN store THEN store[t].variables ELSE <<>>

\* lines 375-381: the identifiers kept of a place's list
PlaceVariablesKept(store, backend, place) ==
  LET listed == IF place \in DOMAIN backend THEN backend[place] ELSE {}
  IN  { v \in listed : has_variable(store, v) \/ v \notin InternalIds }

\* _ensure_place_variables_cached for each filter place in turn (lines
\* 290-291); the fetch of place failAt raises if that place is not cached.
\* fetched lists the places fetched, the failing one included.
\* line 369: `self.variable_cache.get(place_dcid) is None` is false
IsCached_NonEmpty(c, place) == place \in Keys(c) /\ ValueOf(c, place) # {}

IsCached(c, place) == place \in Keys(c)

RECURSIVE EnsureAll(_, _, _, _, _, _)
EnsureAll(store, backend, c, places, i, failAt) ==
  IF i > Len(places) THEN [cache |-> c, raised |-> FALSE, fetched |-> <<>>]
  ELSE IF IsCached(c, places[i])
    THEN EnsureAll(store, backend, LruAfterGet(c, places[i]), places, i + 1, failAt)
  ELSE IF failAt = i THEN [cache |-> c, raised |-> TRUE, fetched |-> <<places[i]>>]
  ELSE LET c1 == LruAfterPut(c, SearchCapacity, places[i],
                             PlaceVariablesKept(store, backend, places[i]))
           r == EnsureAll(store, backend, c1, places, i + 1, failAt)
       IN  [r EXCEPT !.fetched = <<places[i]>> \o @]

\* An entry of a task's answer: a dcid, and places_with_data when the task
\* is place-filtered (<<>> when the key is absent)
Entry(d, pwd) == [dcid |-> d, places_with_data |-> pwd]

Unannotated(dcids) == [i \in 1..Len(dcids) |-> Entry(dcids[i], <<>>)]

\* _filter_variables_by_existence
VariablePlaces_AllFilterPlaces(c, var, places) == places

VariablePlaces(c, var, places) ==
  LET Has(p) == p \in Keys(c) /\ var \in ValueOf(c, p)
  IN  SelectSeq(places, Has)

RECURSIVE ExistingVariables(_, _, _)
ExistingVariables(c, variable_dcids, places) ==
  IF variable_dcids = <<>> THEN <<>>
  ELSE LET pwd == VariablePlaces(c, Head(variable_dcids), places)
           rest == ExistingVariables(c, Tail(variable_dcids), places)
       IN  IF pwd # <<>> THEN <<Entry(Head(variable_dcids), <<pwd>>)>> \o rest ELSE rest

filter_variables_by_existence(c, variable_dcids, places) ==
  IF variable_dcids = <<>> \/ places = <<>> THEN <<>>
  ELSE ExistingVariables(c, variable_dcids, places)

\* _filter_topics_by_existence; error when a traversal raises
RECURSIVE filter_topics_by_existence(_, _, _, _)
filter_topics_by_existence(store, c, topic_dcids, places) ==
  IF topic_dcids = <<>> THEN [error |-> FALSE, items |-> <<>>]
  ELSE LET r == get_topic_places_with_data(store, c, Head(topic_dcids), places, 1)
           rest == filter_topics_by_existence(store, c, Tail(topic_dcids), places)
       IN  IF r.error \/ rest.error THEN [error |-> TRUE, items |-> <<>>]
           ELSE IF r.places # <<>>
             THEN [error |-> FALSE,
                   items |-> <<Entry(Head(topic_dcids), <<r.places>>)>> \o rest.items]
           ELSE rest

\* _get_topics_members_with_existence for one topic of the answer (lines
\* 488-511); a topic the store does not know has no members (lines 316-321)
TopicMembers(store, c, topic, places) ==
  IF topic \notin DOMAIN store
    THEN [error |-> FALSE, member_topics |-> <<>>, member_variables |-> <<>>]
  ELSE IF places = <<>>
    THEN [error |-> FALSE,
          member_topics |-> Unannotated(store[topic].member_topics),
          member_variables |-> Unannotated(store[topic].variables)]
  ELSE LET mt == filter_topics_by_existence(store, c, store[topic].member_topics, places)
       IN  [error |-> mt.error,
            member_topics |-> mt.items,
            member_variables |->
              filter_variables_by_existence(c, store[topic].variables, places)]

EmptyTaskResponse == [topics |-> <<>>, variables |-> <<>>]

\* fetch_topics_and_variables after the places are cached: c is the cache
\* the filters read.  The "lookups" key of the answer (_build_lookups) is
\* left out: search_indicators never reads it.
fetch_topics_and_variables(store, c, hits, places, max_results) ==
  LET found == search_entities(hits)
      ft == IF places # <<>>
            THEN filter_topics_by_existence(store, c, found.topics, places)
            ELSE [error |-> FALSE, items |-> Unannotated(found.topics)]
      fv == IF places # <<>>
            THEN filter_variables_by_existence(c, found.variables, places)
            ELSE Unannotated(found.variables)
      topics == Limit(ft.items, max_results)
      variables == Limit(fv, max_results)
      Members(i) == TopicMembers(store, c, topics[i].dcid, places)
  IN  IF ft.error \/ \E i \in 1..Len(topics) : Members(i).error
      THEN [error |-> TRUE, response |-> EmptyTaskResponse]
      ELSE [error |-> FALSE,
            response |->
              [topics |->
                 [i \in 1..Len(topics) |->
                    [dcid |-> topics[i].dcid,
                     member_topics |-> Members(i).member_topics,
                     member_variables |-> Members(i).member_variables,
                     places_with_data |-> topics[i].places_with_data]],
               variables |-> variables]]

\* SearchTopic(...) of lines 318-323: members are kept by dcid;
\* places_with_data is <<>> for None
SearchTopic(topic) ==
  [dcid |-> topic.dcid,
   member_topics |-> DcidsOf(topic.member_topics),
   member_variables |-> DcidsOf(topic.member_variables),
   places_with_data |-> topic.places_with_data]

\* SearchVariable(...) of lines 329-332: places_with_data defaults to []
SearchVariable(variable) ==
  [dcid |-> variable.dcid,
   places_with_data |->
     IF variable.places_with_data = <<>> THEN <<>> ELSE variable.places_with_data[1]]

\* 'if dcid not in all_...: all_...[dcid] = ...' (lines 317-318, 328-329)
MergeEntry_Append(acc, entry) == Append(acc, entry)

MergeEntry(acc, entry) ==
  IF entry.dcid \in Range(DcidsOf(acc)) THEN acc ELSE Append(acc, entry)

RECURSIVE MergeTopics(_, _)
MergeTopics(acc, topics) ==
  IF topics = <<>> THEN acc
  ELSE MergeTopics(MergeEntry(acc, SearchTopic(Head(topics))), Tail(topics))

RECURSIVE MergeVariables(_, _)
MergeVariables(acc, variables) ==
  IF variables = <<>> THEN acc
  ELSE MergeVariables(MergeEntry(acc, SearchVariable(Head(variables))), Tail(variables))

\* _merge_search_results: dicts keep insertion order
RECURSIVE MergeInto(_, _)
MergeInto(acc, rs) ==
  IF rs = <<>> THEN acc
  ELSE MergeInto([topics |-> MergeTopics(acc.topics, Head(rs).topics),
                  variables |-> MergeVariables(acc.variables, Head(rs).variables)],
                 Tail(rs))

merge_search_results(rs) == MergeInto([topics |-> <<>>, variables |-> <<>>], rs)

\* _get_topic_svs on the results of the vector search (lines 184-206)
RECURSIVE SvsUntilTopic(_, _, _)
SvsUntilTopic(store, hits, svs_before_topic) ==
  IF hits = <<>> THEN svs_before_topic
  ELSE IF IsTopicDcid(Head(hits).SV)
    THEN Dedupe(svs_before_topic \o get_topic_variables(store, Head(hits).SV))
  ELSE SvsUntilTopic(store, Tail(hits), Append(svs_before_topic, Head(hits).SV))

get_topic_svs(store, hits) == SvsUntilTopic(store, hits, <<>>)

\* fetch_topic_variables: the topic SVs the place has, in search order
fetch_topic_variables(store, place_variables, hits) ==
  LET InPlace(sv) == sv \in place_variables
  IN  SelectSeq(get_topic_svs(store, hits), InPlace)

\* lines 373-378 of services.py, for one variable
AddPlace(vs, var_dcid, place_dcid) ==
  LET vs1 == IF var_dcid \in Range(DcidsOf(vs)) THEN vs
             ELSE Append(vs, [dcid |-> var_dcid, places_with_data |-> <<>>])
      i == CHOOSE j \in 1..Len(vs1) : vs1[j].dcid = var_dcid
  IN  [vs1 EXCEPT ![i].places_with_data = Append(@, place_dcid)]

RECURSIVE AddFound(_, _, _)
AddFound(vs, variable_dcids, place_dcid) ==
  IF variable_dcids = <<>> THEN vs
  ELSE AddFound(AddPlace(vs, Head(variable_dcids), place_dcid),
                Tail(variable_dcids), place_dcid)

\* lines 382-390: keep the first per_search_limit variables
LimitVariables_NoLimit(vs, per_search_limit) == vs

LimitVariables(vs, per_search_limit) ==
  IF Len(vs) > per_search_limit THEN SubSeq(vs, 1, per_search_limit) ELSE vs

\* ---- search_indicators: arguments and tasks ----
ModeIsValid(mode) == mode \in {"", "browse", "lookup"}

LimitIsValid_NoUpperBound(per_search_limit) == 1 <= per_search_limit

LimitIsValid(per_search_limit) == 1 <= per_search_limit /\ per_search_limit <= 100

PlaceNamesOf(a) ==
  SelectSeq(<<a.place1_name, a.place2_name>>, LAMBDA n : n # "")

\* place_dcids_map.get(name) if name else None; "" stands for None
PlaceDcidOf_KeepName(map, name) ==
  IF name = "" THEN "" ELSE IF name \in DOMAIN map THEN map[name] ELSE name

PlaceDcidOf(map, name) ==
  IF name # "" /\ name \in DOMAIN map THEN map[name] ELSE ""

\* lines 169-177
ModeInForce_NoFallback(a) == IF a.mode = "lookup" THEN "lookup" ELSE "browse"

ModeInForce(a) ==
  IF a.mode = "lookup" /\ PlaceNamesOf(a) # <<>> THEN "lookup" ELSE "browse"

SearchTask(q, places) == [query |-> q, place_dcids |-> places]

\* lines 179-207
BuildTasks_UnmodifiedLast(a, map) ==
  LET place1_dcid == PlaceDcidOf(map, a.place1_name)
      place2_dcid == PlaceDcidOf(map, a.place2_name)
      One(d) == IF d # "" THEN <<d>> ELSE <<>>
  IN  (IF place1_dcid # ""
       THEN <<SearchTask(Query \o <<a.place1_name>>, One(place2_dcid))>> ELSE <<>>)
      \o (IF place2_dcid # ""
          THEN <<SearchTask(Query \o <<a.place2_name>>, One(place1_dcid))>> ELSE <<>>)
      \o <<SearchTask(Query, One(place1_dcid) \o One(place2_dcid))>>

BuildTasks_AllPlaces(a, map) ==
  LET place1_dcid == PlaceDcidOf(map, a.place1_name)
      place2_dcid == PlaceDcidOf(map, a.place2_name)
      One(d) == IF d # "" THEN <<d>> ELSE <<>>
      all == One(place1_dcid) \o One(place2_dcid)
  IN  <<SearchTask(Query, all)>>
      \o (IF place1_dcid # "" THEN <<SearchTask(Query \o <<a.place1_name>>, all)>> ELSE <<>>)
      \o (IF place2_dcid # "" THEN <<SearchTask(Query \o <<a.place2_name>>, all)>> ELSE <<>>)

BuildTasks(a, map) ==
  LET place1_dcid == PlaceDcidOf(map, a.place1_name)
      place2_dcid == PlaceDcidOf(map, a.place2_name)
      One(d) == IF d # "" THEN <<d>> ELSE <<>>
  IN  <<SearchTask(Query, One(place1_dcid) \o One(place2_dcid))>>
      \o (IF place1_dcid # ""
          THEN <<SearchTask(Query \o <<a.place1_name>>, One(place2_dcid))>> ELSE <<>>)
      \o (IF place2_dcid # ""
          THEN <<SearchTask(Query \o <<a.place2_name>>, One(place1_dcid))>> ELSE <<>>)

\* lookup mode: the (task, place) pairs in the order of the two loops
RECURSIVE PairsFrom(_, _)
PairsFrom(tasks, i) ==
  IF i > Len(tasks) THEN <<>>
  ELSE [j \in 1..Len(tasks[i].place_dcids) |->
          [task |-> i, place |-> tasks[i].place_dcids[j]]]
       \o PairsFrom(tasks, i + 1)

LookupPairs(tasks) == PairsFrom(tasks, 1)

Call(fn, task, arg, ok) == [fn |-> fn, task |-> task, arg |-> arg, ok |-> ok]

\* all_place_dcids: the filter places of all tasks
AllPlaceDcids(tasks) == UNION { Range(tasks[i].place_dcids) : i \in 1..Len(tasks) }

\* lines 217-235: the dcids whose names are looked up
AllDcids(result, tasks) ==
  UNION { {result.topics[i].dcid} \cup Range(result.topics[i].member_topics)
            \cup Range(result.topics[i].member_variables) :
          i \in 1..Len(result.topics) }
    \cup Range(DcidsOf(result.variables))
    \cup AllPlaceDcids(tasks)

\* lines 241-249
SearchResponse(mode, result, lookups) ==
  [status |-> "SUCCESS",
   lookups |-> lookups,
   topics |-> IF mode = "browse" THEN <<result.topics>> ELSE <<>>,
   variables |-> result.variables]

\* ---- search_indicators: the call ----
\* the cache when the call starts: empty, p1 cached, or full with p1 cached
SearchCaches(store, backend) ==
  LET p1 == [key |-> "p1", value |-> PlaceVariablesKept(store, backend, "p1")]
  IN  { <<>>, <<p1>>, <<[key |-> "p9", value |-> {}], p1>> }

SearchArgs ==
  [mode : SearchModes, place1_name : Place1Names, place2_name : Place2Names,
   per_search_limit : SearchLimits]

InitSearch ==
  /\ IdleCache
  /\ IdleDate
  /\ IdleObs
  /\ IdleTopic
  /\ IdleRequest
  /\ IdleMiddleware
  /\ topic_store = SearchTopicStore
  /\ backend_place_variables \in BackendPlaceVariables
  /\ variable_cache \in SearchCaches(topic_store, backend_place_variables)
  /\ args \in SearchArgs
  /\ searchPc = "validate"
  /\ search_mode = ""
  /\ place_dcids_map = EmptyMap
  /\ search_tasks = <<>>
  /\ task_results = <<>>
  /\ all_variables = <<>>
  /\ lookupPos = 1
  /\ search_result = <<>>
  /\ response = <<>>
  /\ calls = <<>>
  /\ error = ""

\* lines 144-156: an unknown mode or a limit outside 1..100 raises ValueError
ValidationFails ==
  /\ searchPc = "validate"
  /\ ~ModeIsValid(args.mode) \/ ~LimitIsValid(args.per_search_limit)
  /\ error' = IF ~ModeIsValid(args.mode) THEN "mode" ELSE "per_search_limit"
  /\ searchPc' = "raised"
  /\ UNCHANGED <<args, backend_place_variables, search_mode, place_dcids_map,
                 search_tasks, task_results, all_variables, lookupPos,
                 search_result, response, calls>>
  /\ UNCHANGED <<clientVars, notSearchVars>>

\* lines 158-207: the names are resolved in one call (none without a name),
\* the mode falls back to browse without a name, the tasks are built.
\* answer[n] is the first candidate of name n, "" when it has none.
SearchPlacesReturns(answer) ==
  /\ searchPc = "validate"
  /\ ModeIsValid(args.mode) /\ LimitIsValid(args.per_search_limit)
  /\ \A n \in DOMAIN answer :
       IF n \in Range(PlaceNamesOf(args)) THEN answer[n] \in Candidates(n)
       ELSE answer[n] = ""
  /\ LET map == [n \in {m \in DOMAIN answer : answer[m] # ""} |-> answer[n]]
     IN  /\ place_dcids_map' = map
         /\ search_tasks' = BuildTasks(args, map)
  /\ search_mode' = ModeInForce(args)
  /\ calls' = IF PlaceNamesOf(args) # <<>>
              THEN Append(calls, Call("search_places", 0, "", TRUE)) ELSE calls
  /\ searchPc' = "run"
  /\ UNCHANGED <<args, backend_place_variables, task_results, all_variables,
                 lookupPos, search_result, response, error>>
  /\ UNCHANGED <<clientVars, notSearchVars>>

\* lines 162-167: an exception of search_places is logged and raised again
SearchPlacesRaises ==
  /\ searchPc = "validate"
  /\ ModeIsValid(args.mode) /\ LimitIsValid(args.per_search_limit)
  /\ PlaceNamesOf(args) # <<>>
  /\ calls' = Append(calls, Call("search_places", 0, "", FALSE))
  /\ error' = "search_places"
  /\ searchPc' = "raised"
  /\ UNCHANGED <<args, backend_place_variables, search_mode, place_dcids_map,
                 search_tasks, task_results, all_variables, lookupPos,
                 search_result, response>>
  /\ UNCHANGED <<clientVars, notSearchVars>>

FetchCalls(task, fetched, raised) ==
  [j \in 1..Len(fetched) |->
     Call("fetch_available_statistical_variables", task, fetched[j],
          ~(raised /\ j = Len(fetched)))]

\* browse mode: the next task of asyncio.gather runs fetch_topics_and_variables.
\* No await of the coroutine suspends (the requests are blocking calls), so
\* the tasks run one after the other in task order, each to its end; a task
\* that raised does not keep the later ones from running.  The reads of the
\* existence filters leave the cache as the ensure loop left it: the cached
\* filter places are already its most recent entries, in filter order.
BrowseTask(outcome, failAt) ==
  /\ searchPc = "run"
  /\ search_mode = "browse"
  /\ Len(task_results) < Len(search_tasks)
  /\ LET i == Len(task_results) + 1
         places == search_tasks[i].place_dcids
         hits == search_svs(outcome)
         r == EnsureAll(topic_store, backend_place_variables, variable_cache,
                        places, 1, failAt)
         ans == fetch_topics_and_variables(topic_store, r.cache, hits, places,
                                           args.per_search_limit)
         raised == r.raised \/ ans.error
     IN  /\ failAt \in 0..Len(places)
         /\ task_results' =
              Append(task_results,
                     [fn |-> "fetch_topics_and_variables",
                      task |-> i, place |-> "", query |-> search_tasks[i].query,
                      place_dcids |-> places, failed |-> outcome.failed,
                      raised |-> raised, hits |-> hits,
                      response |-> IF raised THEN EmptyTaskResponse ELSE ans.response])
         /\ variable_cache' = r.cache
         /\ calls' = calls \o <<Call("search_svs", i, "", ~outcome.failed)>>
                           \o FetchCalls(i, r.fetched, r.raised)
  /\ UNCHANGED <<args, backend_place_variables, searchPc, search_mode,
                 place_dcids_map, search_tasks, all_variables, lookupPos,
                 search_result, response, error>>
  /\ UNCHANGED <<topic_store, notSearchVars>>

\* line 278: gather raises the exception of a task
BrowseGatherRaises ==
  /\ searchPc = "run"
  /\ search_mode = "browse"
  /\ Len(task_results) = Len(search_tasks)
  /\ \E i \in 1..Len(task_results) : task_results[i].raised
  /\ error' = "fetch_topics_and_variables"
  /\ searchPc' = "raised"
  /\ UNCHANGED <<args, backend_place_variables, search_mode, place_dcids_map,
                 search_tasks, task_results, all_variables, lookupPos,
                 search_result, response, calls>>
  /\ UNCHANGED <<clientVars, notSearchVars>>

\* lines 280-289
MergeSearchResults ==
  /\ searchPc = "run"
  /\ search_mode = "browse"
  /\ Len(task_results) = Len(search_tasks)
  /\ \A i \in 1..Len(task_results) : ~task_results[i].raised
  /\ search_result' =
       <<merge_search_results([i \in 1..Len(task_results) |-> task_results[i].response])>>
  /\ searchPc' = "lookups"
  /\ UNCHANGED <<args, backend_place_variables, search_mode, place_dcids_map,
                 search_tasks, task_results, all_variables, lookupPos,
                 response, calls, error>>
  /\ UNCHANGED <<clientVars, notSearchVars>>

\* lookup mode, lines 365-380: fetch_topic_variables for the next place of
\* the next task.  An exception of the place-variable fetch is caught and
\* the loop goes on; task_results records what each call returned.
LookupFetch(outcome) ==
  /\ searchPc = "run"
  /\ search_mode = "lookup"
  /\ lookupPos <= Len(LookupPairs(search_tasks))
  /\ LET pair == LookupPairs(search_tasks)[lookupPos]
         cached == IsCached(variable_cache, pair.place)
         c1 == IF cached THEN LruAfterGet(variable_cache, pair.place)
               ELSE LruAfterPut(variable_cache, SearchCapacity, pair.place,
                                PlaceVariablesKept(topic_store, backend_place_variables,
                                                   pair.place))
         place_variables ==
           IF cached THEN ValueOf(variable_cache, pair.place)
           ELSE PlaceVariablesKept(topic_store, backend_place_variables, pair.place)
         hits == search_svs(outcome)
         found == fetch_topic_variables(topic_store, place_variables, hits)
     IN  /\ variable_cache' = c1
         /\ all_variables' = AddFound(all_variables, found, pair.place)
         /\ task_results' =
              Append(task_results,
                     [fn |-> "fetch_topic_variables",
                      task |-> pair.task, place |-> pair.place,
                      query |-> search_tasks[pair.task].query,
                      place_dcids |-> <<pair.place>>,
                      failed |-> outcome.failed, raised |-> FALSE, hits |-> hits,
                      response |->
                        [topics |-> <<>>,
                         variables |->
                           [j \in 1..Len(found) |-> Entry(found[j], <<<<pair.place>>>>)]]])
         /\ calls' = calls
              \o (IF cached THEN <<>>
                  ELSE <<Call("fetch_available_statistical_variables", pair.task,
                              pair.place, TRUE)>>)
              \o <<Call("search_svs", pair.task, pair.place, ~outcome.failed)>>
  /\ lookupPos' = lookupPos + 1
  /\ UNCHANGED <<args, backend_place_variables, searchPc, search_mode,
                 place_dcids_map, search_tasks, search_result, response, error>>
  /\ UNCHANGED <<topic_store, notSearchVars>>

LookupFetchRaises ==
  /\ searchPc = "run"
  /\ search_mode = "lookup"
  /\ lookupPos <= Len(LookupPairs(search_tasks))
  /\ LET pair == LookupPairs(search_tasks)[lookupPos]
     IN  /\ ~IsCached(variable_cache, pair.place)
         /\ task_results' =
              Append(task_results,
                     [fn |-> "fetch_topic_variables",
                      task |-> pair.task, place |-> pair.place,
                      query |-> search_tasks[pair.task].query,
                      place_dcids |-> <<pair.place>>, failed |-> FALSE,
                      raised |-> TRUE, hits |-> <<>>, response |-> EmptyTaskResponse])
         /\ calls' = Append(calls, Call("fetch_available_statistical_variables",
                                        pair.task, pair.place, FALSE))
  /\ lookupPos' = lookupPos + 1
  /\ UNCHANGED <<args, backend_place_variables, searchPc, search_mode,
                 place_dcids_map, search_tasks, all_variables, search_result,
                 response, error>>
  /\ UNCHANGED <<clientVars, notSearchVars>>

\* lines 382-395
LimitResults ==
  /\ searchPc = "run"
  /\ search_mode = "lookup"
  /\ lookupPos > Len(LookupPairs(search_tasks))
  /\ search_result' =
       <<[topics |-> <<>>,
          variables |-> LimitVariables(all_variables, args.per_search_limit)]>>
  /\ searchPc' = "lookups"
  /\ UNCHANGED <<args, backend_place_variables, search_mode, place_dcids_map,
                 search_tasks, task_results, all_variables, lookupPos,
                 response, calls, error>>
  /\ UNCHANGED <<clientVars, notSearchVars>>

\* lines 292-302: no call without a dcid; an exception of
\* fetch_entity_names gives an empty dict
fetch_and_update_lookups_DcidsOnFailure(dcids, ok) ==
  IF dcids # {} /\ ok THEN [d \in dcids |-> EntityName(d)] ELSE [d \in dcids |-> d]

fetch_and_update_lookups(dcids, ok) ==
  IF dcids # {} /\ ok THEN [d \in dcids |-> EntityName(d)] ELSE EmptyMap

\* lines 214-249: the names of every dcid of the result and of the filter
\* places are looked up and the response is built
FetchLookups(ok) ==
  /\ searchPc = "lookups"
  /\ LET dcids == AllDcids(search_result[1], search_tasks)
         lookups == fetch_and_update_lookups(dcids, ok)
     IN  /\ dcids = {} => ok
         /\ response' = <<SearchResponse(search_mode, search_result[1], lookups)>>
         /\ calls' = IF dcids = {} THEN calls
                     ELSE Append(calls, Call("fetch_entity_names", 0, "", ok))
  /\ searchPc' = "returned"
  /\ UNCHANGED <<args, backend_place_variables, search_mode, place_dcids_map,
                 search_tasks, task_results, all_variables, lookupPos,
                 search_result, error>>
  /\ UNCHANGED <<clientVars, notSearchVars>>

NextSearch ==
  \/ ValidationFails
  \/ \E answer \in [{"France", "Germany"} -> PlaceIds \cup {""}] :
       SearchPlacesReturns(answer)
  \/ SearchPlacesRaises
  \/ \E outcome \in VectorOutcomes, failAt \in 0..2 : BrowseTask(outcome, failAt)
  \/ BrowseGatherRaises
  \/ MergeSearchResults
  \/ \E outcome \in VectorOutcomes : LookupFetch(outcome)
  \/ LookupFetchRaises
  \/ LimitResults
  \/ \E ok \in BOOLEAN : FetchLookups(ok)

SpecSearch == InitSearch /\ [][NextSearch]_vars

\* ---- properties of search_indicators ----
\* the variable (topic) dcids the calls of rs returned, in order
RECURSIVE VariableIdsOf(_)
VariableIdsOf(rs) ==
  IF rs = <<>> THEN <<>>
  ELSE DcidsOf(Head(rs).response.variables) \o VariableIdsOf(Tail(rs))

RECURSIVE TopicIdsOf(_)
TopicIdsOf(rs) ==
  IF rs = <<>> THEN <<>>
  ELSE DcidsOf(Head(rs).response.topics) \o TopicIdsOf(Tail(rs))

VectorSearchWorked(r) == ~r.failed

\* the task results without those whose vector search failed
OtherResults == SelectSeq(task_results, VectorSearchWorked)

SomeBackendCallFailed ==
  \E i \in 1..Len(calls) : calls[i].fn # "search_svs" /\ ~calls[i].ok

\* C7: a failing vector search never makes search_indicators raise (a raise
\* comes from the validation or from a failing call other than the vector
\* search), and a call that returns has status SUCCESS and exactly the
\* topics and variables that the tasks whose vector search worked returned
\* (in lookup mode up to per_search_limit): a task whose vector search
\* failed contributes nothing.
C7_VectorFailureDegrades ==
  /\ searchPc = "raised" =>
       error \in {"mode", "per_search_limit"} \/ SomeBackendCallFailed
  /\ \A i \in 1..Len(task_results) :
       task_results[i].failed =>
         task_results[i].response = EmptyTaskResponse /\ task_results[i].hits = <<>>
  /\ searchPc = "returned" =>
       /\ response[1].status = "SUCCESS"
       /\ search_mode = "browse" =>
            /\ DcidsOf(response[1].variables) = Dedupe(VariableIdsOf(OtherResults))
            /\ DcidsOf(response[1].topics[1]) = Dedupe(TopicIdsOf(OtherResults))
       /\ search_mode = "lookup" =>
            DcidsOf(response[1].variables) =
              Limit(Dedupe(VariableIdsOf(OtherResults)), args.per_search_limit)

\* C7 witness: the call returned although the vector search of one task
\* failed, and the response holds a variable another task returned.
C7_Witness ==
  /\ searchPc = "returned"
  /\ response[1].status = "SUCCESS"
  /\ \E i, j \in 1..Len(task_results) :
       /\ task_results[i].failed
       /\ ~task_results[j].failed
       /\ task_results[i].task # task_results[j].task
       /\ task_results[j].response.variables # <<>>
       /\ Range(DcidsOf(task_results[j].response.variables))
            \subseteq Range(DcidsOf(response[1].variables))

Merged == searchPc \in {"lookups", "returned"}

NoDuplicateEntries ==
  /\ IsInjective(DcidsOf(search_result[1].topics))
  /\ IsInjective(DcidsOf(search_result[1].variables))

EveryReturnedIdHasAnEntry ==
  /\ Range(TopicIdsOf(task_results)) \subseteq Range(DcidsOf(search_result[1].topics))
  /\ Range(VariableIdsOf(task_results)) \subseteq Range(DcidsOf(search_result[1].variables))

\* C10 as stated: the merged result has at most one entry per topic dcid and
\* per variable dcid, and every identifier a task returned has an entry, in
\* browse and in lookup mode.
C10_MergedOncePerDcidAndComplete ==
  Merged => NoDuplicateEntries /\ EveryReturnedIdHasAnEntry

\* C10 amended: the merged result has at most one entry per topic dcid and
\* per variable dcid; in browse mode every identifier a task returned has an
\* entry; in lookup mode the entries are the first per_search_limit distinct
\* variables in the order the tasks and their places found them.
C10_MergedOncePerDcid ==
  Merged =>
    /\ NoDuplicateEntries
    /\ search_mode = "browse" => EveryReturnedIdHasAnEntry
    /\ search_mode = "lookup" =>
         /\ search_result[1].topics = <<>>
         /\ DcidsOf(search_result[1].variables) =
              Limit(Dedupe(VariableIdsOf(task_results)), args.per_search_limit)

\* C10 witness: two tasks returned the same variable and the merged result
\* has one entry for it.
C10_Witness ==
  /\ Merged
  /\ \E i, j \in 1..Len(task_results) :
       /\ task_results[i].task # task_results[j].task
       /\ \E v \in Range(DcidsOf(task_results[i].response.variables))
                     \cap Range(DcidsOf(task_results[j].response.variables)) :
            Cardinality({k \in 1..Len(search_result[1].variables) :
                           search_result[1].variables[k].dcid = v}) = 1

\* the first task result that returned d as a variable (as a topic), and the
\* first entry for d in it
ReturnsVariable(r, d) == d \in Range(DcidsOf(r.response.variables))

ReturnsTopic(r, d) == d \in Range(DcidsOf(r.response.topics))

FirstEntryOf(entries, d) ==
  entries[CHOOSE j \in 1..Len(entries) :
            entries[j].dcid = d /\ \A k \in 1..(j - 1) : entries[k].dcid # d]

FirstVariableResult(d) ==
  task_results[CHOOSE i \in 1..Len(task_results) :
                 /\ ReturnsVariable(task_results[i], d)
                 /\ \A k \in 1..(i - 1) : ~ReturnsVariable(task_results[k], d)]

FirstTopicResult(d) ==
  task_results[CHOOSE i \in 1..Len(task_results) :
                 /\ ReturnsTopic(task_results[i], d)
                 /\ \A k \in 1..(i - 1) : ~ReturnsTopic(task_results[k], d)]

\* the places at which the results rs found variable d, one per find
RECURSIVE PlacesFoundIn(_, _)
PlacesFoundIn(entries, d) ==
  IF entries = <<>> THEN <<>>
  ELSE (IF Head(entries).dcid = d /\ Head(entries).places_with_data # <<>>
        THEN Head(entries).places_with_data[1] ELSE <<>>)
       \o PlacesFoundIn(Tail(entries), d)

RECURSIVE PlacesFoundBy(_, _)
PlacesFoundBy(rs, d) ==
  IF rs = <<>> THEN <<>>
  ELSE PlacesFoundIn(Head(rs).response.variables, d) \o PlacesFoundBy(Tail(rs), d)

\* merged entries are in the order of first occurrence
MergedInFirstOccurrenceOrder ==
  /\ DcidsOf(search_result[1].variables) =
       Limit(Dedupe(VariableIdsOf(task_results)), Len(search_result[1].variables))
  /\ DcidsOf(search_result[1].topics) =
       Limit(Dedupe(TopicIdsOf(task_results)), Len(search_result[1].topics))

\* browse mode: every merged entry is the entry of the first task that
\* returned the dcid
BrowseFirstWriterWins ==
  /\ \A k \in 1..Len(search_result[1].variables) :
       LET e == search_result[1].variables[k]
       IN  e = SearchVariable(FirstEntryOf(FirstVariableResult(e.dcid).response.variables,
                                           e.dcid))
  /\ \A k \in 1..Len(search_result[1].topics) :
       LET e == search_result[1].topics[k]
       IN  e = SearchTopic(FirstEntryOf(FirstTopicResult(e.dcid).response.topics, e.dcid))

\* lookup mode, as the claim has it: the places of a variable are those the
\* first task that found it found it at
LookupFirstTaskOnly ==
  \A k \in 1..Len(search_result[1].variables) :
    LET e == search_result[1].variables[k]
        t == FirstVariableResult(e.dcid).task
        OfTask(r) == r.task = t
    IN  e.places_with_data = PlacesFoundBy(SelectSeq(task_results, OfTask), e.dcid)

\* C11 as stated: the merged entry of an identifier is the one of the first
\* task that returned it, its places_with_data (and members) coming from
\* that task alone, in browse and in lookup mode; entries are in the order
\* of first occurrence.
C11_FirstTaskWins ==
  Merged =>
    /\ MergedInFirstOccurrenceOrder
    /\ search_mode = "browse" => BrowseFirstWriterWins
    /\ search_mode = "lookup" => LookupFirstTaskOnly

\* ---- the tasks built ----
TasksBuilt == search_tasks # <<>>

\* the places given by name that search_places resolved, in argument order
ResolvedPlaces ==
  LET given == <<[name |-> args.place1_name,
                  dcid |-> PlaceDcidOf(place_dcids_map, args.place1_name)],
                 [name |-> args.place2_name,
                  dcid |-> PlaceDcidOf(place_dcids_map, args.place2_name)]>>
      IsResolved(g) == g.dcid # ""
  IN  SelectSeq(given, IsResolved)

ResolvedDcids == [i \in 1..Len(ResolvedPlaces) |-> ResolvedPlaces[i].dcid]

\* the resolved dcids but the i-th
OtherDcids(i) ==
  SubSeq(ResolvedDcids, 1, i - 1) \o SubSeq(ResolvedDcids, i + 1, Len(ResolvedDcids))

ExpectedQueries ==
  <<Query>> \o [i \in 1..Len(ResolvedPlaces) |-> Query \o <<ResolvedPlaces[i].name>>]

TimesIn(s, x) == Cardinality({i \in 1..Len(s) : s[i] = x})

TaskQueries == [i \in 1..Len(search_tasks) |-> search_tasks[i].query]

OneTaskPerPlaceAndOneUnmodified ==
  /\ Len(search_tasks) = Len(ResolvedPlaces) + 1
  /\ \A x \in Range(ExpectedQueries) \cup Range(TaskQueries) :
       TimesIn(TaskQueries, x) = TimesIn(ExpectedQueries, x)

\* C12 as stated: over n resolved places, n in {1, 2}, n + 1 tasks are
\* built, one per place with that place's name appended to the query and
\* one with the unmodified query, and every task is filtered by all n
\* resolved place ids.
C12_EveryTaskFilteredByAllPlaces ==
  (TasksBuilt /\ Len(ResolvedPlaces) >= 1) =>
    /\ OneTaskPerPlaceAndOneUnmodified
    /\ \A i \in 1..Len(search_tasks) : search_tasks[i].place_dcids = ResolvedDcids

\* C12 amended: over n resolved places, n in {1, 2}, n + 1 tasks are built:
\* the unmodified query filtered by all n resolved place ids, and per place
\* the query with that place's name appended, filtered by the other resolved
\* place id only (by no place when n = 1).
C12_AugmentedTaskFilteredByOtherPlace ==
  (TasksBuilt /\ Len(ResolvedPlaces) >= 1) =>
    /\ OneTaskPerPlaceAndOneUnmodified
    /\ search_tasks[1] = SearchTask(Query, ResolvedDcids)
    /\ \A i \in 1..Len(ResolvedPlaces) :
         search_tasks[i + 1] =
           SearchTask(Query \o <<ResolvedPlaces[i].name>>, OtherDcids(i))

\* C12 witness: two names resolved to two places and three tasks were built.
C12_Witness ==
  /\ TasksBuilt
  /\ Len(ResolvedPlaces) = 2
  /\ ResolvedDcids[1] # ResolvedDcids[2]
  /\ Len(search_tasks) = 3
  /\ search_tasks[2].place_dcids = <<ResolvedDcids[2]>>

\* the fetch_topics_and_variables calls to expect, in order
ExpectedBrowseCalls ==
  <<SearchTask(Query, ResolvedDcids)>>
  \o [i \in 1..Len(ResolvedPlaces) |->
        SearchTask(Query \o <<ResolvedPlaces[i].name>>, OtherDcids(i))]

BrowseCalls ==
  [i \in 1..Len(task_results) |->
     SearchTask(task_results[i].query, task_results[i].place_dcids)]

\* C13: in browse mode the fetch_topics_and_variables calls made so far are
\* the first calls of: the unmodified query filtered by all resolved places,
\* then per resolved place the query with that place's name appended,
\* filtered by the other resolved place only; once the tasks have run there
\* is exactly one call per task.
C13_BrowseCallsInTaskOrder ==
  search_mode = "browse" =>
    /\ Len(BrowseCalls) <= Len(ExpectedBrowseCalls)
    /\ BrowseCalls = SubSeq(ExpectedBrowseCalls, 1, Len(BrowseCalls))
    /\ searchPc \in {"lookups", "returned"} => BrowseCalls = ExpectedBrowseCalls
    /\ (searchPc = "raised" /\ error = "fetch_topics_and_variables") =>
         BrowseCalls = ExpectedBrowseCalls

\* C13 witness: one place P named N was resolved and the calls were
\* (query, [P]) and (query N, []).
C13_Witness ==
  /\ search_mode = "browse"
  /\ searchPc = "returned"
  /\ Len(ResolvedPlaces) = 1
  /\ BrowseCalls = <<SearchTask(Query, <<ResolvedPlaces[1].dcid>>),
                     SearchTask(Query \o <<ResolvedPlaces[1].name>>, <<>>)>>

(***************************************************************************)
(* get_observations                                                        *)
(***************************************************************************)
ObservationPeriods == {"latest", "all"}

ObservationArgs ==
  [variable_dcid : {"", "var1"}, place_dcid : {"", "place1"},
   place_name : {"", "USA"}, period : {"", "latest", "all", "bogus"},
   start_date : {<<>>, <<2022>>, <<2024>>}, end_date : {<<>>, <<2023>>}]

\* the exception of a lookup that finds nothing; no ValueError
NoDataFoundError == "NoDataFoundError"

\* what search_places may hold for the name: nothing or a dcid
PlaceAnswers == {"", "country/USA"}

\* bool(start_date) ^ bool(end_date)
OnlyOneDate(a) == (a.start_date # <<>>) # (a.end_date # <<>>)

\* lines 52-62: the initial validations, "" when they pass
ValidationError(a) ==
  IF a.variable_dcid = "" THEN "ValueError"
  ELSE IF ~(a.place_name # "" \/ a.place_dcid # "") THEN "ValueError"
  ELSE IF a.period = "" /\ OnlyOneDate(a) THEN "ValueError"
  ELSE ""

\* lines 65-72: ObservationPeriod(period) raises ValueError for a value that
\* is no period; DateRange(...) raises for a start after the end
PeriodError(a) ==
  IF ~(a.period # "" \/ (a.start_date # <<>> /\ a.end_date # <<>>)) THEN ""
  ELSE IF a.period # "" THEN (IF a.period \in ObservationPeriods THEN "" ELSE "ValueError")
  ELSE IF DtLeq(get_start_date(a.start_date), get_end_date(a.end_date)) THEN ""
  ELSE "InvalidDateRangeError"

observation_period(a) ==
  IF ~(a.period # "" \/ (a.start_date # <<>> /\ a.end_date # <<>>)) THEN "latest"
  ELSE IF a.period # "" THEN a.period
  ELSE "all"

DateFilterOf(a) ==
  IF a.period = "" /\ a.start_date # <<>> /\ a.end_date # <<>>
  THEN <<DateRange(a.start_date, a.end_date)>> ELSE <<>>

\* lines 82-89 (child_place_type and source_ids are passed through)
ObservationToolRequest(a, place) ==
  [variable_dcid |-> a.variable_dcid, place_dcid |-> place,
   observation_period |-> observation_period(a), date_filter |-> DateFilterOf(a)]

\* line 75: the name is resolved only without a place_dcid
NeedsResolution_Always(a) == TRUE

NeedsResolution(a) == a.place_dcid = ""

RequestCall(fn, arg) == [fn |-> fn, arg |-> arg]

InitRequest ==
  /\ IdleCache
  /\ IdleDate
  /\ IdleObs
  /\ IdleClient
  /\ IdleTopic
  /\ IdleSearch
  /\ IdleMiddleware
  /\ obs_args \in ObservationArgs
  /\ requestPc = "validate"
  /\ observation_request = <<>>
  /\ request_calls = <<>>
  /\ request_error = ""

\* lines 52-72: a check fails before the place is resolved
BuildRequestRaises ==
  /\ requestPc = "validate"
  /\ ValidationError(obs_args) # "" \/ PeriodError(obs_args) # ""
  /\ request_error' = IF ValidationError(obs_args) # "" THEN ValidationError(obs_args)
                      ELSE PeriodError(obs_args)
  /\ requestPc' = "raised"
  /\ UNCHANGED <<obs_args, observation_request, request_calls>>
  /\ UNCHANGED notRequestVars

\* lines 74-89: the place is resolved by name when no dcid is given; answer
\* is what search_places holds for the name
BuildRequest(answer) ==
  /\ requestPc = "validate"
  /\ ValidationError(obs_args) = "" /\ PeriodError(obs_args) = ""
  /\ LET resolve == NeedsResolution(obs_args)
         place == IF resolve THEN answer ELSE obs_args.place_dcid
     IN  /\ ~resolve => answer = ""
         /\ request_calls' =
              IF resolve
              THEN Append(request_calls, RequestCall("search_places", obs_args.place_name))
              ELSE request_calls
         /\ IF place = ""
            THEN /\ request_error' = NoDataFoundError
                 /\ requestPc' = "raised"
                 /\ UNCHANGED observation_request
            ELSE /\ observation_request' = <<ObservationToolRequest(obs_args, place)>>
                 /\ requestPc' = "fetch"
                 /\ UNCHANGED request_error
  /\ UNCHANGED obs_args
  /\ UNCHANGED notRequestVars

\* line 76: an exception of search_places propagates
ResolvePlaceRaises ==
  /\ requestPc = "validate"
  /\ ValidationError(obs_args) = "" /\ PeriodError(obs_args) = ""
  /\ NeedsResolution(obs_args)
  /\ request_calls' =
       Append(request_calls, RequestCall("search_places", obs_args.place_name))
  /\ request_error' = "search_places"
  /\ requestPc' = "raised"
  /\ UNCHANGED <<obs_args, observation_request>>
  /\ UNCHANGED notRequestVars

\* line 119: fetch_obs returns the response or raises
FetchObs(ok) ==
  /\ requestPc = "fetch"
  /\ request_calls' =
       Append(request_calls, RequestCall("fetch_obs", observation_request[1].place_dcid))
  /\ requestPc' = IF ok THEN "returned" ELSE "raised"
  /\ request_error' = IF ok THEN "" ELSE "fetch_obs"
  /\ UNCHANGED <<obs_args, observation_request>>
  /\ UNCHANGED notRequestVars

NextRequest ==
  \/ BuildRequestRaises
  \/ \E answer \in PlaceAnswers : BuildRequest(answer)
  \/ ResolvePlaceRaises
  \/ \E ok \in BOOLEAN : FetchObs(ok)

SpecRequest == InitRequest /\ [][NextRequest]_vars

\* search_indicators and get_observations, either being called
InitService == InitSearch \/ InitRequest

NextService == NextSearch \/ NextRequest

SpecService == InitService /\ [][NextService]_vars

\* ---- properties of the validation ----
MalformedSearch ==
  /\ searchPc # "idle"
  /\ \/ args.mode \notin {"", "browse", "lookup"}
     \/ args.per_search_limit < 1
     \/ args.per_search_limit > 100

MalformedObservationRequest ==
  /\ requestPc # "idle"
  /\ \/ obs_args.variable_dcid = ""
     \/ obs_args.place_name = "" /\ obs_args.place_dcid = ""
     \/ /\ obs_args.period = ""
        /\ \/ obs_args.start_date = <<>> /\ obs_args.end_date # <<>>
           \/ obs_args.start_date # <<>> /\ obs_args.end_date = <<>>

\* C14: a malformed call of search_indicators (unknown mode, limit outside
\* 1..100) makes no client call at all and ends in a validation error; a
\* malformed call of get_observations (empty variable_dcid, no place, one
\* of start_date / end_date without a period) likewise calls neither
\* search_places nor fetch_obs and ends in a ValueError.
C14_ValidationBeforeBackendCalls ==
  /\ MalformedSearch =>
       /\ calls = <<>>
       /\ task_results = <<>>
       /\ searchPc \in {"validate", "raised"}
       /\ searchPc = "raised" => error \in {"mode", "per_search_limit"}
  /\ MalformedObservationRequest =>
       /\ request_calls = <<>>
       /\ requestPc \in {"validate", "raised"}
       /\ requestPc = "raised" => request_error = "ValueError"

\* C14 witness: a call with only a start_date has raised the validation
\* error.
C14_Witness ==
  /\ requestPc = "raised"
  /\ obs_args.variable_dcid # "" /\ obs_args.place_name # ""
  /\ obs_args.period = "" /\ obs_args.start_date # <<>> /\ obs_args.end_date = <<>>
  /\ request_error = "ValueError"
  /\ request_calls = <<>>

NoPlaceName == args.place1_name = "" /\ args.place2_name = ""

ClientFunctionsCalled == {task_results[i].fn : i \in 1..Len(task_results)}

\* C16: a lookup-mode call without a place name calls
\* fetch_topics_and_variables and never fetch_topic_variables, and returns a
\* topics list; a lookup-mode call with a place name never calls
\* fetch_topics_and_variables and returns None for topics.
C16_LookupWithoutPlaceIsBrowse ==
  (args.mode = "lookup" /\ searchPc # "idle") =>
    /\ NoPlaceName =>
         /\ ClientFunctionsCalled \subseteq {"fetch_topics_and_variables"}
         /\ searchPc = "returned" =>
              /\ ClientFunctionsCalled = {"fetch_topics_and_variables"}
              /\ response[1].topics # <<>>
    /\ ~NoPlaceName =>
         /\ ClientFunctionsCalled \subseteq {"fetch_topic_variables"}
         /\ searchPc = "returned" => response[1].topics = <<>>

\* C16 witness: a lookup-mode call without a place name returned a topic.
C16_Witness ==
  /\ args.mode = "lookup"
  /\ NoPlaceName
  /\ searchPc = "returned"
  /\ ClientFunctionsCalled = {"fetch_topics_and_variables"}
  /\ response[1].topics # <<>>
  /\ response[1].topics[1] # <<>>

\* ---- unresolved place names ----
PlacesResolved == searchPc \in {"run", "lookups", "returned"}

GivenNames == Range(PlaceNamesOf(args))

UnresolvedNames == {n \in GivenNames : n \notin DOMAIN place_dcids_map}

ResolvedGivenDcids == {place_dcids_map[n] : n \in GivenNames \ UnresolvedNames}

SearchPlacesRaised ==
  /\ calls # <<>>
  /\ calls[Len(calls)].fn = "search_places"
  /\ ~calls[Len(calls)].ok

\* C17: a place name that search_places does not resolve is dropped: no task
\* carries it in its query or filter, the tasks filter by the resolved places
\* only, and the call goes on to a SUCCESS response (it raises only when a
\* client call raised); when search_places raises, search_indicators raises
\* and no task was built or run.
C17_UnresolvedPlaceDropped ==
  /\ (PlacesResolved /\ UnresolvedNames # {}) =>
       /\ search_tasks # <<>>
       /\ \A i \in 1..Len(search_tasks) :
            /\ Range(search_tasks[i].query) \cap UnresolvedNames = {}
            /\ Range(search_tasks[i].place_dcids) \cap UnresolvedNames = {}
       /\ AllPlaceDcids(search_tasks) = ResolvedGivenDcids
       /\ searchPc = "returned" => response[1].status = "SUCCESS"
  /\ (searchPc = "raised" /\ UnresolvedNames # {} /\ ~SearchPlacesRaised) =>
       \/ error \in {"mode", "per_search_limit"}
       \/ \E i \in 1..Len(task_results) : task_results[i].raised
  /\ SearchPlacesRaised <=> error = "search_places"
  /\ SearchPlacesRaised =>
       /\ searchPc = "raised"
       /\ search_tasks = <<>>
       /\ task_results = <<>>
       /\ response = <<>>
       /\ Len(calls) = 1

\* C17 witness: of two names given one was not resolved and the call
\* returned with variables found under the resolved one.
C17_Witness ==
  /\ searchPc = "returned"
  /\ Cardinality(GivenNames) = 2
  /\ Cardinality(UnresolvedNames) = 1
  /\ Len(search_tasks) = 2
  /\ response[1].status = "SUCCESS"
  /\ response[1].variables # <<>>

\* ---- the display-name lookup ----
LastCallIs(fn, ok) ==
  /\ calls # <<>>
  /\ calls[Len(calls)].fn = fn
  /\ calls[Len(calls)].ok = ok

\* C18: when fetch_entity_names raises, search_indicators returns status
\* SUCCESS with the topics and variables of the search result, as when the
\* lookup succeeds, and with an empty lookups map.
C18_LookupFailureGivesEmptyLookups ==
  /\ LastCallIs("fetch_entity_names", FALSE) =>
       /\ searchPc = "returned"
       /\ error = ""
       /\ response[1].status = "SUCCESS"
       /\ response[1].lookups = EmptyMap
  /\ LastCallIs("fetch_entity_names", TRUE) =>
       /\ searchPc = "returned"
       /\ DOMAIN response[1].lookups # {}
  /\ searchPc = "returned" =>
       /\ response[1].variables = search_result[1].variables
       /\ response[1].topics =
            IF search_mode = "browse" THEN <<search_result[1].topics>> ELSE <<>>

\* C18 witness: fetch_entity_names raised and the response carries a topic
\* and a variable.
C18_Witness ==
  /\ LastCallIs("fetch_entity_names", FALSE)
  /\ searchPc = "returned"
  /\ response[1].lookups = EmptyMap
  /\ response[1].topics # <<>>
  /\ response[1].topics[1] # <<>>
  /\ response[1].variables # <<>>

\* ---- the limit of lookup mode ----
\* the distinct variables in the order in which the fetch_topic_variables
\* calls (task by task, place by place) returned them
DiscoveredVariables == Dedupe(VariableIdsOf(task_results))

FirstOf(s, n) == IF Len(s) > n THEN SubSeq(s, 1, n) ELSE s

\* C19: in lookup mode the response holds at most per_search_limit
\* variables, the first per_search_limit distinct ones in the order in which
\* the tasks and their places discovered them.
C19_LookupLimit ==
  (search_mode = "lookup" /\ searchPc = "returned") =>
    /\ Len(response[1].variables) <= args.per_search_limit
    /\ DcidsOf(response[1].variables) = FirstOf(DiscoveredVariables, args.per_search_limit)

\* C19 witness: two distinct variables were discovered, the second by a later
\* call than the first, and the limit of 1 kept the first.
C19_Witness ==
  /\ search_mode = "lookup"
  /\ searchPc = "returned"
  /\ args.per_search_limit = 1
  /\ Len(DiscoveredVariables) = 2
  /\ ~ReturnsVariable(task_results[1], DiscoveredVariables[2])
  /\ DcidsOf(response[1].variables) = <<DiscoveredVariables[1]>>

\* ======================================================================
\* middleware.py: APIKeyMiddleware and AcceptMiddleware
\* ======================================================================
\* One request is dispatched through one middleware.  headers maps the
\* header names of the request, in the lower case of the ASGI scope, to
\* their values.  events records, in order, what the dispatch did: the
\* use_api_key context entered and exited, the downstream handler invoked
\* (with the key in force) and completed.  seen_headers holds the headers
\* the handler was given, dispatch_result what the dispatch returned or
\* raised.
Middlewares == {"APIKeyMiddleware", "AcceptMiddleware"}

ApiKeyValues == {"", "key1", "key2"}

AcceptValues == {"", "*/*", "text/html, */*", "application/json"}

HeaderNames == {"x-api-key", "accept"}

RequestHeaders ==
  { h \in UNION { [D -> ApiKeyValues \cup AcceptValues] : D \in SUBSET HeaderNames } :
      /\ "x-api-key" \in DOMAIN h => h["x-api-key"] \in ApiKeyValues
      /\ "accept" \in DOMAIN h => h["accept"] \in AcceptValues }

HandlerResponses == {200, 404}

HandlerExceptions == {"RuntimeError"}

\* header names are matched without regard to case
LowerName(name) ==
  CASE name = "X-API-Key" -> "x-api-key" [] name = "Accept" -> "accept" [] OTHER -> name

\* request.headers.get(name): <<value>>, or <<>> for None
HeadersGet(h, name) ==
  IF LowerName(name) \in DOMAIN h THEN <<h[LowerName(name)]>> ELSE <<>>

\* line 23: `if api_key:`; <<>> stands for None
HasApiKey_EmptyIncluded(api_key) == api_key # <<>>

HasApiKey(api_key) == api_key # <<>> /\ api_key[1] # ""

Event(ev, key) == [ev |-> ev, key |-> key]

EventsOf(ev) == SelectSeq(events, LAMBDA e : e.ev = ev)

\* the key the use_api_key context has in force, <<>> outside the context
KeyInForce(es) ==
  LET entered == SelectSeq(es, LAMBDA e : e.ev = "enter")
      exited == SelectSeq(es, LAMBDA e : e.ev = "exit")
  IN  IF Len(entered) > Len(exited) THEN entered[Len(entered)].key ELSE <<>>

InitMiddleware ==
  /\ IdleCache
  /\ IdleDate
  /\ IdleObs
  /\ IdleClient
  /\ IdleTopic
  /\ IdleSearch
  /\ IdleRequest
  /\ middleware \in Middlewares
  /\ headers \in RequestHeaders
  /\ middlewarePc = "dispatch"
  /\ events = <<>>
  /\ seen_headers = <<>>
  /\ dispatch_result = <<>>

\* APIKeyMiddleware.dispatch, lines 22-27 and 34, up to the await: with a
\* key the use_api_key context is entered, then call_next is invoked
APIKeyDispatch ==
  /\ middleware = "APIKeyMiddleware"
  /\ middlewarePc = "dispatch"
  /\ LET api_key == HeadersGet(headers, "X-API-Key")
         entered == IF HasApiKey(api_key) THEN <<Event("enter", api_key)>> ELSE <<>>
     IN  events' = entered \o <<Event("call_next", KeyInForce(entered))>>
  /\ seen_headers' = <<headers>>
  /\ middlewarePc' = "await"
  /\ UNCHANGED <<middleware, headers, dispatch_result>>
  /\ UNCHANGED notMiddlewareVars

\* AcceptMiddleware.dispatch, lines 46-48: the header is read and logged and
\* call_next is invoked with the request as received
AcceptDispatch ==
  /\ middleware = "AcceptMiddleware"
  /\ middlewarePc = "dispatch"
  /\ events' = <<Event("call_next", <<>>)>>
  /\ seen_headers' = <<headers>>
  /\ middlewarePc' = "await"
  /\ UNCHANGED <<middleware, headers, dispatch_result>>
  /\ UNCHANGED notMiddlewareVars

\* the handler returns: the with block is left (lines 26-27), the response
\* is returned (lines 27, 34, 48)
CallNextReturns(resp) ==
  /\ middlewarePc = "await"
  /\ LET key == KeyInForce(events)
     IN  events' = events \o <<Event("completed", key)>>
                     \o (IF key # <<>> THEN <<Event("exit", key)>> ELSE <<>>)
  /\ dispatch_result' = <<[kind |-> "response", value |-> resp]>>
  /\ middlewarePc' = "returned"
  /\ UNCHANGED <<middleware, headers, seen_headers>>
  /\ UNCHANGED notMiddlewareVars

\* the handler raises: the with block is left, the except clause of lines
\* 28-32 logs and raises again; without a key the exception propagates
CallNextRaises(exc) ==
  /\ middlewarePc = "await"
  /\ LET key == KeyInForce(events)
     IN  events' = events \o <<Event("completed", key)>>
                     \o (IF key # <<>>
                         THEN <<Event("exit", key), Event("log_error", <<>>)>>
                         ELSE <<>>)
  /\ dispatch_result' = <<[kind |-> "exception", value |-> exc]>>
  /\ middlewarePc' = "raised"
  /\ UNCHANGED <<middleware, headers, seen_headers>>
  /\ UNCHANGED notMiddlewareVars

NextMiddleware ==
  \/ APIKeyDispatch
  \/ AcceptDispatch
  \/ \E resp \in HandlerResponses : CallNextReturns(resp)
  \/ \E exc \in HandlerExceptions : CallNextRaises(exc)

SpecMiddleware == InitMiddleware /\ [][NextMiddleware]_vars

\* ---- the API key context ----
CarriesApiKey == "x-api-key" \in DOMAIN headers /\ headers["x-api-key"] # ""

\* the context and handler events, in order
ContextEvents ==
  SelectSeq(events, LAMBDA e : e.ev \in {"enter", "call_next", "completed", "exit"})

DispatchCompleted == middlewarePc \in {"returned", "raised"}

\* C20: APIKeyMiddleware enters use_api_key(key) once before invoking the
\* handler and exits it once after the handler completed, a raise of the
\* handler being raised again, iff the request carries a non-empty X-API-Key
\* header; without one use_api_key is never called; either way the handler is
\* invoked exactly once.
C20_ApiKeyContextIffHeader ==
  (middleware = "APIKeyMiddleware" /\ middlewarePc # "dispatch") =>
    LET key == <<headers["x-api-key"]>>
    IN  /\ Len(EventsOf("call_next")) = 1
        /\ CarriesApiKey <=> Len(EventsOf("enter")) = 1
        /\ ~CarriesApiKey => EventsOf("enter") = <<>> /\ EventsOf("exit") = <<>>
        /\ (CarriesApiKey /\ middlewarePc = "await") =>
             ContextEvents = <<Event("enter", key), Event("call_next", key)>>
        /\ (CarriesApiKey /\ DispatchCompleted) =>
             ContextEvents = <<Event("enter", key), Event("call_next", key),
                               Event("completed", key), Event("exit", key)>>
        /\ DispatchCompleted =>
             (CarriesApiKey <=> Len(EventsOf("exit")) = 1)
        /\ middlewarePc = "raised" =>
             /\ dispatch_result[1].kind = "exception"
             /\ dispatch_result[1].value \in HandlerExceptions
        /\ middlewarePc = "returned" => dispatch_result[1].kind = "response"

\* C20 witness: with a key, the handler raised inside the context, the
\* context was left and the exception raised again.
C20_Witness ==
  /\ middleware = "APIKeyMiddleware"
  /\ CarriesApiKey
  /\ middlewarePc = "raised"
  /\ Len(EventsOf("enter")) = 1
  /\ Len(EventsOf("exit")) = 1
  /\ dispatch_result[1].kind = "exception"

\* ---- the Accept header ----
MCP_ACCEPT == "text/event-stream, application/json"

\* '*/*' in accept_header, over AcceptValues
HasWildcard(accept_header) == accept_header \in {"*/*", "text/html, */*"}

AcceptToRewrite == "accept" \notin DOMAIN headers \/ HasWildcard(headers["accept"])

HandlerInvoked == middlewarePc \in {"await", "returned", "raised"}

\* C21 as stated: the handler behind AcceptMiddleware is given an Accept
\* header of 'text/event-stream, application/json' when the request has
\* none or one containing '*/*', and the request's own Accept header
\* otherwise.
C21_AcceptRewritten ==
  (middleware = "AcceptMiddleware" /\ HandlerInvoked) =>
    /\ "accept" \in DOMAIN seen_headers[1]
    /\ seen_headers[1]["accept"] =
         IF AcceptToRewrite THEN MCP_ACCEPT ELSE headers["accept"]

\* ---- a pass over an existing series ----
\* the SourceMetadata of every facet the base pass integrates, in
\* orderedFacets order
BasePassMetadata ==
  [i \in 1..Len(ResponseOf(BASE_DC_ID).orderedFacets) |->
     SeriesMetadata(ResponseOf(BASE_DC_ID).orderedFacets[i], BASE_DC_ID)]

BasePassOverExistingSeries ==
  /\ obsPc = "integrate_base"
  /\ obsPc' = "place_names"
  /\ SeriesExists
  /\ ResponseOf(BASE_DC_ID).hasEntity

\* C22: a pass over a pair whose series exists from a prior pass leaves the
\* primary source_metadata and the observations unchanged, keeps the
\* alternatives in order and appends the SourceMetadata of every facet it
\* integrates.
C22_ExistingSeriesOnlyGainsAlternatives ==
  [][BasePassOverExistingSeries =>
       /\ SeriesExists'
       /\ TheSeries'.source_metadata = TheSeries.source_metadata
       /\ TheSeries'.observations = TheSeries.observations
       /\ TheSeries'.alternative_sources =
            TheSeries.alternative_sources \o BasePassMetadata]_vars

\* C22 witness: the base pass ran over a series of the custom pass that had
\* an alternative, and appended two facets, one with the id of an
\* alternative already there.
C22_Witness ==
  /\ obsPc = "place_names"
  /\ SeriesExists
  /\ TheSeries.source_metadata.dc_client_id = CUSTOM_DC_ID
  /\ Len(TheSeries.alternative_sources) = 3
  /\ TheSeries.alternative_sources[1].dc_client_id = CUSTOM_DC_ID
  /\ TheSeries.alternative_sources[2].dc_client_id = BASE_DC_ID
  /\ \E i \in 2..3 :
       TheSeries.alternative_sources[i].source_id = TheSeries.alternative_sources[1].source_id

\* ---- the period of an observation ----
PeriodContained(obs, range) ==
  /\ DtLeq(range.start_date, parse_interval(obs.date)[1])
  /\ DtLeq(parse_interval(obs.date)[2], range.end_date)

\* C27 as stated: filter_by_date keeps an observation only if the whole
\* period its date denotes (year, month or day) lies in
\* [start_date, end_date].
C27_KeptPeriodContained ==
  (datePc = "done" /\ date_filter # <<>>) =>
    \A i \in 1..Len(observations) :
      Kept(i) => PeriodContained(observations[i], date_filter[1])

\* ---- the creation of a series ----
\* the facets the pass of backend dc integrates, in orderedFacets order
FacetsOfPass(dc) ==
  SelectSeq(ResponseOf(dc).orderedFacets, LAMBDA f : f.facetId \in IdsOfPass(dc))

InRequestedRange(obs) ==
  \/ request.date_filter = <<>>
  \/ /\ DtLeq(request.date_filter[1].start_date, parse_date(obs.date))
     /\ DtLeq(parse_date(obs.date), request.date_filter[1].end_date)

FirstIntegrator(id) ==
  IF custom_dc /\ id \in IdsOfPass(CUSTOM_DC_ID) THEN CUSTOM_DC_ID ELSE BASE_DC_ID

IntegratedByBothPasses ==
  IF custom_dc /\ AfterGather THEN IdsOfPass(CUSTOM_DC_ID) \cap IdsOfPass(BASE_DC_ID)
  ELSE {}

\* a step keeps every source_info entry as it is
SourceInfoEntriesKept ==
  \A id \in DOMAIN final_response.source_info :
    /\ id \in DOMAIN final_response'.source_info
    /\ final_response'.source_info[id] = final_response.source_info[id]

\* after both passes the entries are those of the first integrators
SourceInfoFromFirstIntegrator ==
  (obsPc \in {"place_names", "returned"}) =>
    /\ DOMAIN final_response.source_info =
         IdsOfPass(BASE_DC_ID) \cup (IF custom_dc THEN IdsOfPass(CUSTOM_DC_ID) ELSE {})
    /\ \A id \in DOMAIN final_response.source_info :
         final_response.source_info[id] =
           [source_id |-> id, importName |-> <<FirstIntegrator(id), id>>]

\* C25: the source_info entry of a facet id is the one created by the first
\* pass that integrated a facet with that id, also after a later pass of the
\* other backend integrated a facet with the same id, and no step of the
\* call changes or removes an entry.
C25_SourceInfoWrittenOnce ==
  []SourceInfoFromFirstIntegrator /\ [][SourceInfoEntriesKept]_vars

\* C25 witness: both passes integrated a facet with the same id and the
\* entry is the custom backend's.
C25_Witness ==
  /\ obsPc = "returned"
  /\ \E id \in IntegratedByBothPasses :
       final_response.source_info[id].importName = <<CUSTOM_DC_ID, id>>

\* ---- the order of the fusion ----
AllFetched == \A dc \in DOMAIN client_results : client_results[dc].state = "ok"

\* the response after the custom pass, from the backend responses alone
AfterCustomPass ==
  IF custom_dc
  THEN integrate_observation_response(
         EmptyResponse, ResponseOf(CUSTOM_DC_ID), CUSTOM_DC_ID, request.date_filter,
         SelectedSourceIds(ResponseOf(CUSTOM_DC_ID), ResponseOf(BASE_DC_ID)))
  ELSE EmptyResponse

\* the response after the base pass, from the backend responses alone
AfterBasePass ==
  integrate_observation_response(
    AfterCustomPass, ResponseOf(BASE_DC_ID), BASE_DC_ID, request.date_filter,
    NoSelection)

WithoutPlaceNames(r) ==
  [r EXCEPT !.place_data =
     [p \in DOMAIN @ |-> [@[p] EXCEPT !.place_name = <<>>]]]

\* C28: nothing is integrated before every fetch has completed; the custom
\* response is integrated first, the base response second, place names are
\* attached after both passes; so the response is the same function of the
\* two backend responses in whatever order the fetches completed.
C28_FusionIndependentOfCompletionOrder ==
  /\ obsPc = "gather" => final_response = EmptyResponse
  /\ AfterGather => AllFetched
  /\ obsPc = "integrate_custom" => final_response = EmptyResponse
  /\ obsPc = "integrate_base" => final_response = AfterCustomPass
  /\ obsPc = "place_names" => final_response = AfterBasePass
  /\ obsPc = "returned" =>
       /\ WithoutPlaceNames(final_response) = AfterBasePass
       /\ final_response.source_info = AfterBasePass.source_info

\* C28 witness: with two backends answering differently the call returned a
\* series of the custom backend, base facets among its alternatives and the
\* place named.
C28_Witness ==
  /\ obsPc = "returned"
  /\ custom_dc
  /\ ResponseOf(CUSTOM_DC_ID) # ResponseOf(BASE_DC_ID)
  /\ SeriesExists
  /\ TheSeries.source_metadata.dc_client_id = CUSTOM_DC_ID
  /\ \E i \in 1..Len(TheSeries.alternative_sources) :
       TheSeries.alternative_sources[i].dc_client_id = BASE_DC_ID
  /\ final_response.place_data[PlaceDcid].place_name # <<>>

\* ---- the limit of browse mode ----
HitsContributed(r) == Len(r.response.topics) + Len(r.response.variables)

\* C26 as stated: in browse mode each task contributes at most
\* per_search_limit hits, topics and variables counted together, to the
\* merge.
C26_TaskHitsWithinLimit ==
  search_mode = "browse" =>
    \A i \in 1..Len(task_results) :
      HitsContributed(task_results[i]) <= args.per_search_limit

\* ---- the existence filter of a browse task ----
\* the task that ran last; variable_cache is the cache its filters read
LastTask == task_results[Len(task_results)]

BrowseTaskAnswered ==
  /\ search_mode = "browse"
  /\ task_results # <<>>
  /\ ~LastTask.raised

HitDcids(r) == [i \in 1..Len(r.hits) |-> r.hits[i].SV]

VariableHits(r) == SelectSeq(HitDcids(r), LAMBDA d : d \notin TopicIds)

TopicHits(r) == SelectSeq(HitDcids(r), LAMBDA d : d \in TopicIds)

\* the filter places of r whose cached variable set contains v, in filter order
FilterPlacesWith(r, v) ==
  SelectSeq(r.place_dcids,
            LAMBDA p : p \in Keys(variable_cache) /\ v \in ValueOf(variable_cache, p))

\* the filter places of r at which a variable of topic t's hierarchy is cached
FilterPlacesOfTopic(r, t) ==
  { p \in Range(r.place_dcids) :
      /\ p \in Keys(variable_cache)
      /\ HierarchyVariables(t) \cap ValueOf(variable_cache, p) # {} }

\* the variable entries the filter passes, before the limit
VariablesPassed(r) ==
  IF r.place_dcids = <<>> THEN [i \in 1..Len(VariableHits(r)) |-> Entry(VariableHits(r)[i], <<>>)]
  ELSE LET kept == SelectSeq(VariableHits(r), LAMBDA v : FilterPlacesWith(r, v) # <<>>)
       IN  [i \in 1..Len(kept) |-> Entry(kept[i], <<FilterPlacesWith(r, kept[i])>>)]

\* the topics the filter passes, before the limit
TopicsPassed(r) ==
  IF r.place_dcids = <<>> THEN TopicHits(r)
  ELSE SelectSeq(TopicHits(r), LAMBDA t : FilterPlacesOfTopic(r, t) # {})

IsFetchOf(call, p) ==
  call.fn = "fetch_available_statistical_variables" /\ call.arg = p

\* how often the backend was asked for the variables of place p
FetchAsks(p) == Cardinality({i \in 1..Len(calls) : IsFetchOf(calls[i], p)})

FetchRaisedFor(p) == \E i \in 1..Len(calls) : IsFetchOf(calls[i], p) /\ ~calls[i].ok

\* no fetch for p raised: the backend was asked for p at most once, and not
\* at all when the call began with p cached
AskedAtMostOnce ==
  \A p \in PlaceIds :
    ~FetchRaisedFor(p) =>
      /\ FetchAsks(p) <= 1
      /\ FetchAsks(p) = 1 => p \in Keys(variable_cache)

\* a step in which a task (browse) or a task's place (lookup) ran: the
\* backend is asked for a filter place iff the place was absent, once, and
\* every filter place is resident when the task has not raised
EnsureStep ==
  Len(task_results') = Len(task_results) + 1 =>
    LET r == task_results'[Len(task_results')]
        new == SubSeq(calls', Len(calls) + 1, Len(calls'))
        AsksFor(q) == Cardinality({i \in 1..Len(new) : IsFetchOf(new[i], q)})
    IN  /\ \A q \in PlaceIds : AsksFor(q) > 0 => q \in Range(r.place_dcids)
        /\ \A q \in PlaceIds : AsksFor(q) <= 1
        /\ \A q \in PlaceIds : AsksFor(q) = 1 => q \notin Keys(variable_cache)
        /\ ~r.raised =>
             \A q \in Range(r.place_dcids) :
               /\ AsksFor(q) = 1 <=> q \notin Keys(variable_cache)
               /\ q \in Keys(variable_cache')
               /\ q \in Keys(variable_cache) =>
                    ValueOf(variable_cache', q) = ValueOf(variable_cache, q)

VariablePlacesListedOnce(variable) == IsInjective(variable.places_with_data)

TopicPlacesListedOnce(topic) ==
  topic.places_with_data # <<>> => IsInjective(topic.places_with_data[1])

\* C30 as stated: no places_with_data list of a topic or a variable of a
\* search response holds a place id twice, in browse and in lookup mode.
C30_PlacesWithDataDistinct ==
  searchPc = "returned" =>
    /\ \A i \in 1..Len(response[1].variables) : VariablePlacesListedOnce(response[1].variables[i])
    /\ response[1].topics # <<>> =>
         \A i \in 1..Len(response[1].topics[1]) :
           TopicPlacesListedOnce(response[1].topics[1][i])

====
